---------------------------- MODULE Spec2Model ----------------------------
(***************************************************************************)
(* Yuga Planner: the constraint scorer (constraint_solvers/timetable),     *)
(* the solved-schedule registry (state.py, services/state.py) and the job  *)
(* flow around the solver (services/schedule.py, handlers/web_backend.py, *)
(* handlers/mcp_backend.py), the tool-call assembler                       *)
(* (handlers/tool_call_handler.py).                                        *)
(*                                                                         *)
(* The specifications:                                                     *)
(*   Spec       the registry, the solver jobs, data loading and polling    *)
(*   ScoreSpec  the scorer applied to schedules drawn from bounded sets    *)
(*   HoursSpec  the working-hours functions applied to bounded arguments   *)
(*   BuilderSpec  the problem builder applied to bounded inputs            *)
(*   AnalyzerSpec  the scorer, then the diagnostic analyzer                *)
(*   TasksSpec  the task producers of the builder on bounded inputs        *)
(*   SeedSpec   the build of a schedule from the task table                *)
(*   ConvergeSpec  one solver job on the end-to-end scenario, with fairness *)
(*   PollSpec   poll_solution and auto_poll against the registry           *)
(*   McpSpec    the MCP handler beside the worker of its job               *)
(*   AssemblerSpec  the assembler of streamed tool calls                   *)
(***************************************************************************)
EXTENDS Integers, Sequences, FiniteSets, TLC

VARIABLES
    solved_schedules,   \* AppState._solved_schedules: job id -> reference | None
    heap,               \* the EmployeeSchedule objects, by reference
    jobs,               \* the solver manager's jobs: job id -> job record
    submitted,          \* history: job id -> the schedule as it was submitted
    lastReported,       \* history: job id -> the schedule value last handed to the listener
    issued,             \* the job ids uuid4 has produced so far
    loads,              \* number of load_data calls so far
    pollOut,            \* the result of the last call, if it was a poll_solution
    sched,              \* ScoreSpec: the schedule under evaluation
    score,              \* ScoreSpec: the result of scoring sched
    arg,                \* the arguments of a call of a function of the program
    result              \* what the call returned

vars == <<solved_schedules, heap, jobs, submitted, lastReported, issued, loads,
          pollOut, sched, score, arg, result>>

registryVars == <<solved_schedules, heap, jobs, submitted, lastReported, issued,
                  loads, pollOut>>

scoreVars == <<sched, score>>

callVars == <<arg, result>>

-----------------------------------------------------------------------------
(* Bounds of the model *)

MaxSolves == 2        \* solve_schedule calls (solver jobs)
MaxLoads == 1         \* load_data calls
HorizonSlots == 2     \* total_slots of the schedules given to the solver
MaxStart == 2         \* ScoreSpec: start slots 0..MaxStart of day 0
MaxDuration == 2      \* ScoreSpec: duration_slots 1..MaxDuration
MaxSequence == 1      \* ScoreSpec: sequence numbers 0..MaxSequence
MaxDays == 7          \* HoursSpec: days_in_schedule 1..MaxDays
MaxTaskDuration == 20 \* HoursSpec: duration_slots 1..MaxTaskDuration
MaxEmployees == 2     \* BuilderSpec: employee_count 1..MaxEmployees
MaxBuilderDays == 2   \* BuilderSpec: days_in_schedule 1..MaxBuilderDays
MaxBuilderTasks == 2  \* BuilderSpec: task lists of 1..MaxBuilderTasks tasks
MaxBuilderDuration == 2 \* BuilderSpec: duration_slots 1..MaxBuilderDuration
MaxToday == 2         \* BuilderSpec: the builder runs on day 0..MaxToday-1
MaxArgPieces == 4     \* AssemblerSpec: pieces of argument text received in all
MaxPolls == 2         \* McpSpec: max_polls of the handler's polling loop
MaxScenarioSlot == 3  \* ConvergeSpec: the search tries start slots 0..MaxScenarioSlot

-----------------------------------------------------------------------------
(* Working hours: constraint_solvers/timetable/working_hours.py *)

SLOTS_PER_WORKING_DAY == 20
LUNCH_BREAK_START_SLOT == 8
LUNCH_BREAK_END_SLOT == 10

Max(a, b) == IF a >= b THEN a ELSE b
Min(a, b) == IF a <= b THEN a ELSE b

get_working_day_from_slot(slot) == slot \div SLOTS_PER_WORKING_DAY

get_slot_within_day(slot) == slot % SLOTS_PER_WORKING_DAY

\* dates are day offsets from schedule_info.base_date
get_slot_date(slot) == get_working_day_from_slot(slot)

\* the lunch break taken to end after slot 10
task_spans_lunch_break_through_end_slot(task) ==
    LET start_slot_in_day == get_slot_within_day(task.start_slot)
        end_slot_in_day == start_slot_in_day + task.duration_slots - 1
    IN  /\ start_slot_in_day <= LUNCH_BREAK_END_SLOT
        /\ end_slot_in_day >= LUNCH_BREAK_START_SLOT

task_spans_lunch_break(task) ==
    LET start_slot_in_day == get_slot_within_day(task.start_slot)
        end_slot_in_day == start_slot_in_day + task.duration_slots - 1
    IN  /\ start_slot_in_day <= LUNCH_BREAK_END_SLOT - 1
        /\ end_slot_in_day >= LUNCH_BREAK_START_SLOT

is_weekend_slot(slot) ==
    LET working_day == get_working_day_from_slot(slot)
        day_of_week == working_day % 7
    IN  day_of_week >= 5

NoTz == <<>>

\* a datetime: the date as days from base_date, the time as minutes from
\* midnight, and tzinfo (NoTz, or <<the zone's UTC offset in minutes>>)
Datetime(day, minutes, tzinfo) == [day |-> day, minutes |-> minutes, tzinfo |-> tzinfo]

\* slot_to_datetime(slot, base_date): a naive datetime
slot_to_datetime(slot) ==
    LET working_day == get_working_day_from_slot(slot)
        slot_within_day == get_slot_within_day(slot)
        minutes_from_9am == slot_within_day * 30
        since_midnight == 9 * 60 + minutes_from_9am
    IN  Datetime(working_day + (since_midnight \div 1440), since_midnight % 1440, NoTz)

\* the UTC offset, in minutes, of the system's local time zone
LocalUtcOffset == 0

\* dt.astimezone().replace(tzinfo=None)
astimezone_naive(dt) ==
    LET local == dt.day * 1440 + dt.minutes - dt.tzinfo[1] + LocalUtcOffset
    IN  Datetime(local \div 1440, local % 1440, NoTz)

\* Python round(m / 30): to the nearest integer, halves to the even one
round_div_30(m) ==
    LET q == m \div 30
        r == m % 30
    IN  IF r < 15 THEN q
        ELSE IF r > 15 THEN q + 1
        ELSE IF q % 2 = 0 THEN q ELSE q + 1

\* datetime_to_slot with dt.minute left out of minutes_from_9am
datetime_to_slot_hours_only(dt) ==
    LET naive == IF dt.tzinfo # NoTz THEN astimezone_naive(dt) ELSE dt
        days_from_base == naive.day
        minutes_from_9am == ((naive.minutes \div 60) - 9) * 60
        slot_within_day == round_div_30(minutes_from_9am)
        total_slot == days_from_base * SLOTS_PER_WORKING_DAY + slot_within_day
    IN  Max(0, total_slot)

\* utils/extract_calendar.py datetime_to_slot(dt, base_date)
datetime_to_slot(dt) ==
    LET naive == IF dt.tzinfo # NoTz THEN astimezone_naive(dt) ELSE dt
        days_from_base == naive.day
        minutes_from_9am == ((naive.minutes \div 60) - 9) * 60 + (naive.minutes % 60)
        slot_within_day == round_div_30(minutes_from_9am)
        total_slot == days_from_base * SLOTS_PER_WORKING_DAY + slot_within_day
    IN  Max(0, total_slot)

-----------------------------------------------------------------------------
(* Domain: constraint_solvers/timetable/domain.py *)

None == "None"

\* Employee(name, skills, unavailable_dates, undesired_dates, desired_dates)
Employee ==
    [alice |-> [name |-> "alice", skills |-> {"Python"},
                unavailable_dates |-> {1}, undesired_dates |-> {},
                desired_dates |-> {0}],
     bob   |-> [name |-> "bob", skills |-> {"Java"},
                unavailable_dates |-> {}, undesired_dates |-> {0, 1},
                desired_dates |-> {}],
     \* the employee of single-employee mode: every required skill, no dates
     user  |-> [name |-> "Chatbot User", skills |-> {"Python", "Java"},
                unavailable_dates |-> {}, undesired_dates |-> {},
                desired_dates |-> {}]]

EmployeeNames == {"alice", "bob"}

\* Task(id, duration_slots, start_slot, required_skill, project_id,
\*      sequence_number, pinned, employee); employee is a name or None
Task(id, duration_slots, start_slot, required_skill, project_id, sequence_number, pinned, employee) ==
    [id |-> id, duration_slots |-> duration_slots, start_slot |-> start_slot,
     required_skill |-> required_skill, project_id |-> project_id,
     sequence_number |-> sequence_number, pinned |-> pinned,
     employee |-> employee]

\* the PlanningPin annotation of Task.pinned
IsPinnedIgnored(task) == FALSE

IsPinned(task) == task.pinned

\* EmployeeSchedule(employees, tasks, schedule_info, score)
EmployeeSchedule(employees, tasks, total_slots, sc) ==
    [employees |-> employees, tasks |-> tasks,
     schedule_info |-> [total_slots |-> total_slots], score |-> sc]

\* EmployeeSchedule.get_start_slot_range: range(max_slot)
get_start_slot_range(schedule) ==
    LET ends == {schedule.tasks[t].start_slot + schedule.tasks[t].duration_slots :
                   t \in {u \in DOMAIN schedule.tasks : IsPinned(schedule.tasks[u])}}
        RECURSIVE MaxOf(_, _)
        MaxOf(s, m) == IF s = {} THEN m
                       ELSE LET x == CHOOSE y \in s : TRUE
                            IN  MaxOf(s \ {x}, Max(m, x))
        max_slot == MaxOf(ends, schedule.schedule_info.total_slots)
    IN  0 .. (max_slot - 1)

-----------------------------------------------------------------------------
(* Constraint scorer: constraint_solvers/timetable/constraints.py *)

RECURSIVE SetSum(_, _)
SetSum(w, S) ==
    IF S = {} THEN 0
    ELSE LET x == CHOOSE y \in S : TRUE
         IN  w[x] + SetSum(w, S \ {x})

TaskIdsOf(schedule) == DOMAIN schedule.tasks

\* constraint_factory.for_each(Task): Task is the planning entity and its
\* planning variables (start_slot, employee) do not allow unassigned values,
\* so the stream holds the tasks whose planning variables are all set;
\* start_slot is an int in every Task
for_each(schedule) ==
    {t \in TaskIdsOf(schedule) : schedule.tasks[t].employee # None}

get_slot_overlap(task1, task2) ==
    LET task1_end == task1.start_slot + task1.duration_slots
        task2_end == task2.start_slot + task2.duration_slots
        overlap_start == Max(task1.start_slot, task2.start_slot)
        overlap_end == Min(task1_end, task2_end)
    IN  Max(0, overlap_end - overlap_start)

tasks_violate_sequence_order(task1, task2) ==
    IF task1.id = task2.id THEN FALSE
    ELSE IF task1.project_id = "" THEN FALSE
    ELSE IF task1.project_id # task2.project_id THEN FALSE
    ELSE IF task1.sequence_number >= task2.sequence_number THEN FALSE
    ELSE task1.start_slot + task1.duration_slots > task2.start_slot

\* the matches of each constraint stream; a match is a task id or a pair of them

required_skill(schedule) ==
    {t \in for_each(schedule) :
        /\ schedule.tasks[t].employee # None
        /\ schedule.tasks[t].required_skill
              \notin Employee[schedule.tasks[t].employee].skills}

\* Joiners.overlapping(start, end): the two half-open ranges intersect
JoinersOverlapping(task1, task2) ==
    /\ task1.start_slot < task2.start_slot + task2.duration_slots
    /\ task2.start_slot < task1.start_slot + task1.duration_slots

\* the same stream over every task, the "only check assigned tasks" filter left out
no_overlapping_tasks_unfiltered(schedule) ==
    {p \in TaskIdsOf(schedule) \X TaskIdsOf(schedule) :
        /\ p[1] < p[2]
        /\ schedule.tasks[p[1]].employee = schedule.tasks[p[2]].employee
        /\ JoinersOverlapping(schedule.tasks[p[1]], schedule.tasks[p[2]])}

\* the same joiners and filter on join(Task): both orders of every pair
no_overlapping_tasks_join(schedule) ==
    {p \in for_each(schedule) \X for_each(schedule) :
        /\ p[1] # p[2]
        /\ schedule.tasks[p[1]].employee = schedule.tasks[p[2]].employee
        /\ JoinersOverlapping(schedule.tasks[p[1]], schedule.tasks[p[2]])
        /\ schedule.tasks[p[1]].employee # None}

\* for_each_unique_pair: each unordered pair once, ordered by planning id
no_overlapping_tasks(schedule) ==
    {p \in for_each(schedule) \X for_each(schedule) :
        /\ p[1] < p[2]
        /\ schedule.tasks[p[1]].employee = schedule.tasks[p[2]].employee
        /\ JoinersOverlapping(schedule.tasks[p[1]], schedule.tasks[p[2]])
        /\ schedule.tasks[p[1]].employee # None}

task_within_schedule(schedule) ==
    {t \in for_each(schedule) : schedule.tasks[t].start_slot < 0}

task_fits_in_schedule(schedule) ==
    {t \in for_each(schedule) :
        schedule.tasks[t].start_slot + schedule.tasks[t].duration_slots
            > schedule.schedule_info.total_slots}

unavailable_employee(schedule) ==
    {t \in for_each(schedule) :
        /\ schedule.tasks[t].employee # None
        /\ get_slot_date(schedule.tasks[t].start_slot)
              \in Employee[schedule.tasks[t].employee].unavailable_dates}

no_lunch_break_spanning(schedule) ==
    {t \in for_each(schedule) : task_spans_lunch_break(schedule.tasks[t])}

no_weekend_scheduling(schedule) ==
    {t \in for_each(schedule) : is_weekend_slot(schedule.tasks[t].start_slot)}

undesired_day_for_employee(schedule) ==
    {t \in for_each(schedule) :
        /\ schedule.tasks[t].employee # None
        /\ get_slot_date(schedule.tasks[t].start_slot)
              \in Employee[schedule.tasks[t].employee].undesired_dates}

desired_day_for_employee(schedule) ==
    {t \in for_each(schedule) :
        /\ schedule.tasks[t].employee # None
        /\ get_slot_date(schedule.tasks[t].start_slot)
              \in Employee[schedule.tasks[t].employee].desired_dates}

\* the same join over every task, unassigned ones included
maintain_project_task_order_including_unassigned(schedule) ==
    {p \in TaskIdsOf(schedule) \X TaskIdsOf(schedule) :
        tasks_violate_sequence_order(schedule.tasks[p[1]], schedule.tasks[p[2]])}

\* for_each(Task).join(Task): every ordered pair of the stream
maintain_project_task_order(schedule) ==
    {p \in for_each(schedule) \X for_each(schedule) :
        tasks_violate_sequence_order(schedule.tasks[p[1]], schedule.tasks[p[2]])}

\* the match weights

NoOverlapWeight(schedule, p) ==
    get_slot_overlap(schedule.tasks[p[1]], schedule.tasks[p[2]])

\* the overlap of the two tasks as the weight
ProjectOrderWeightAsOverlap(schedule, p) ==
    get_slot_overlap(schedule.tasks[p[1]], schedule.tasks[p[2]])

ProjectOrderWeight(schedule, p) ==
    schedule.tasks[p[1]].start_slot + schedule.tasks[p[1]].duration_slots
        - schedule.tasks[p[2]].start_slot

\* balance_employee_task_assignments: the task count of every employee
\* (complement: 0 for the employees without a task); the load balance's
\* unfairness is sqrt(sum((count - mean)^2)).  SquaredDeviation is
\* n * sum((count - mean)^2) = n * sum(count^2) - (sum(count))^2, an integer.
TaskCount(schedule, e) ==
    Cardinality({t \in for_each(schedule) : schedule.tasks[t].employee = e})

\* the load balance over the employees that have a task only (no complement)
SquaredDeviation_without_complement(schedule) ==
    LET busy == {e \in schedule.employees : TaskCount(schedule, e) > 0}
        n == Cardinality(busy)
        Sq(e) == TaskCount(schedule, e) * TaskCount(schedule, e)
        Cnt(e) == TaskCount(schedule, e)
        total == SetSum([e \in busy |-> Cnt(e)], busy)
    IN  n * SetSum([e \in busy |-> Sq(e)], busy) - total * total

SquaredDeviation(schedule) ==
    LET n == Cardinality(schedule.employees)
        Sq(e) == TaskCount(schedule, e) * TaskCount(schedule, e)
        Cnt(e) == TaskCount(schedule, e)
        total == SetSum([e \in schedule.employees |-> Cnt(e)], schedule.employees)
    IN  n * SetSum([e \in schedule.employees |-> Sq(e)], schedule.employees) - total * total

\* the element of a one-element set
Only(S) == CHOOSE x \in S : TRUE

\* the penalty totals of the hard constraints and the score
\* HardSoftDecimalScore(hard, soft), soft = soft_int - sqrt(dev / n); the
\* totals are computed once and bound to c
calculate_score(schedule) ==
    LET OverlapW(p) == NoOverlapWeight(schedule, p)
        OrderW(p) == ProjectOrderWeight(schedule, p)
        pen == [required_skill |-> Cardinality(required_skill(schedule)),
              no_overlapping_tasks |-> SetSum([p \in no_overlapping_tasks(schedule) |-> OverlapW(p)],
                         no_overlapping_tasks(schedule)),
              task_within_schedule |-> Cardinality(task_within_schedule(schedule)),
              task_fits_in_schedule |-> Cardinality(task_fits_in_schedule(schedule)),
              unavailable_employee |-> Cardinality(unavailable_employee(schedule)),
              maintain_project_task_order |->
                  SetSum([p \in maintain_project_task_order(schedule) |-> OrderW(p)],
                         maintain_project_task_order(schedule)),
              no_lunch_break_spanning |-> Cardinality(no_lunch_break_spanning(schedule)),
              no_weekend_scheduling |-> Cardinality(no_weekend_scheduling(schedule)),
              undesired_day_for_employee |->
                  Cardinality(undesired_day_for_employee(schedule)),
              desired_day_for_employee |->
                  Cardinality(desired_day_for_employee(schedule))]
    IN  Only({[penalties |-> c,
              hard |-> 0 - (c.required_skill + c.no_overlapping_tasks
                            + c.task_within_schedule + c.task_fits_in_schedule
                            + c.unavailable_employee + c.maintain_project_task_order
                            + c.no_lunch_break_spanning + c.no_weekend_scheduling),
              soft_int |-> c.desired_day_for_employee - c.undesired_day_for_employee,
              dev |-> SquaredDeviation(schedule),
              n |-> Cardinality(schedule.employees)] : c \in {pen}})

-----------------------------------------------------------------------------
(* Initial values of the two groups of variables *)

NoneRef == <<"None">>
NoScore == [hard |-> "None"]
EmptyMap == [x \in {} |-> NoneRef]
NoPoll == [out |-> [kind |-> "none"], reported |-> FALSE]

RegistryInit ==
    /\ solved_schedules = EmptyMap
    /\ heap = EmptyMap
    /\ jobs = EmptyMap
    /\ submitted = EmptyMap
    /\ lastReported = EmptyMap
    /\ issued = {}
    /\ loads = 0
    /\ pollOut = NoPoll

ScoreIdle ==
    /\ sched = EmployeeSchedule({}, EmptyMap, 0, NoScore)
    /\ score = NoScore

NoCall == [op |-> "none"]

CallIdle ==
    /\ arg = NoCall
    /\ result = NoCall

-----------------------------------------------------------------------------
(* The (hard, soft) score and its lexicographic order *)

\* the score a schedule is tagged with: soft = soft_int - sqrt(dev / n)
ScoreOf(schedule) ==
    Only({[hard |-> c.hard, soft_int |-> c.soft_int, dev |-> c.dev, n |-> c.n] :
             c \in {calculate_score(schedule)}})

\* a.soft > b.soft, decided exactly: with d = a.soft_int - b.soft_int it is
\* d * sqrt(n) + sqrt(b.dev) > sqrt(a.dev)
SoftGreater(a, b) ==
    LET d == a.soft_int - b.soft_int
        n == a.n
    IN  IF d >= 0
        THEN LET r == a.dev - b.dev - d * d * n
             IN  r < 0 \/ 4 * d * d * n * b.dev > r * r
        ELSE LET r == b.dev - a.dev - d * d * n
             IN  r > 0 /\ r * r > 4 * d * d * n * a.dev

ScoreGreater(a, b) ==
    \/ a.hard > b.hard
    \/ a.hard = b.hard /\ SoftGreater(a, b)

-----------------------------------------------------------------------------
(* The registry: state.py (AppState), services/state.py (StateService) *)

\* AppState.add_solved_schedule: self._solved_schedules[key] = schedule
add_solved_schedule(registry, key, schedule) ==
    [k \in DOMAIN registry \cup {key} |-> IF k = key THEN schedule ELSE registry[k]]

\* AppState.has_solved_schedule: key in self._solved_schedules
has_solved_schedule(key) == key \in DOMAIN solved_schedules

\* StateService.get_solved_schedule
get_solved_schedule(job_id) ==
    IF has_solved_schedule(job_id) THEN solved_schedules[job_id] ELSE NoneRef

\* StateService.store_solved_schedule
store_solved_schedule(registry, job_id, schedule) ==
    add_solved_schedule(registry, job_id, schedule)

-----------------------------------------------------------------------------
(* Objects and references *)

WorkRef(j) == <<"work", j>>          \* the solver's working copy of job j
ProblemRef(j) == <<"problem", j>>    \* the schedule object given to solve_schedule

\* the best-solution event hands the listener a new object, a deep copy of the
\* working solution; n (1 or 2) tells it from the object reported before it
BestSolutionCopy(j, n) == <<"solution", j, n>>

\* the listener of solve_schedule, storing the submitted schedule
listener_stores_problem(registry, job_id, solution) ==
    store_solved_schedule(registry, job_id, ProblemRef(job_id))

\* the listener of solve_schedule, storing under one key for all jobs
listener_shared_key(registry, job_id, solution) ==
    store_solved_schedule(registry, 1, solution)

\* ScheduleService.solve_schedule.listener (closure over job_id)
listener(registry, job_id, solution) ==
    store_solved_schedule(registry, job_id, solution)

\* uuid.uuid4(): an id never produced before
NewJobId == Cardinality(issued) + 1

JobIds == 1 .. (MaxSolves + MaxLoads)

\* the objects still referenced after a step
Collect(newHeap, registry, jobIds) ==
    LET live == {WorkRef(j) : j \in jobIds} \cup {ProblemRef(j) : j \in jobIds}
                  \cup {registry[k] : k \in DOMAIN registry}
    IN  [r \in DOMAIN newHeap \cap live |-> newHeap[r]]

Put(h, ref, value) ==
    [r \in DOMAIN h \cup {ref} |-> IF r = ref THEN value ELSE h[r]]

-----------------------------------------------------------------------------
(* The schedules submitted for solving (built by generate_schedule_for_solving:
   every task has an employee, unpinned tasks start at slot 0) *)

\* single-employee mode: one pinned calendar task and two project tasks
ProblemA ==
    EmployeeSchedule({"user"},
        <<Task(1, 1, 0, "Python", "EXISTING", 0, TRUE, "user"),
          Task(2, 1, 0, "Python", "PROJECT", 0, FALSE, "user"),
          Task(3, 1, 0, "Java", "PROJECT", 1, FALSE, "user")>>,
        HorizonSlots, NoScore)

\* two employees: one pinned calendar task and one project task
ProblemB ==
    EmployeeSchedule({"alice", "bob"},
        <<Task(1, 1, 0, "Java", "EXISTING", 0, TRUE, "bob"),
          Task(2, 1, 0, "Python", "PROJECT", 0, FALSE, "alice")>>,
        HorizonSlots, NoScore)

\* the schedule of the k-th call of solve_schedule
ProblemFor(k) == IF k % 2 = 1 THEN ProblemA ELSE ProblemB

-----------------------------------------------------------------------------
(* Spec: data loading, solver jobs, the listener and polling *)

Init == RegistryInit /\ ScoreIdle /\ CallIdle

SolverJobs == DOMAIN jobs

\* handlers/web_backend.py load_data: the job id of the loaded data is stored
\* with None as its schedule
LoadData ==
    /\ loads < MaxLoads
    /\ LET job_id == NewJobId
       IN  /\ issued' = issued \cup {job_id}
           /\ solved_schedules' = store_solved_schedule(solved_schedules, job_id, NoneRef)
    /\ loads' = loads + 1
    /\ pollOut' = NoPoll
    /\ UNCHANGED <<heap, jobs, submitted, lastReported>>
    /\ UNCHANGED <<scoreVars, callVars>>

\* solver_manager.solve_and_listen(job_id, schedule, listener) under a new
\* job id
SubmitJob(schedule) ==
    /\ Cardinality(SolverJobs) < MaxSolves
    /\ LET job_id == NewJobId
       IN  /\ issued' = issued \cup {job_id}
           /\ jobs' = Put(jobs, job_id,
                          [status |-> "SUBMITTED", best |-> NoScore,
                           terminate |-> FALSE, checked |-> FALSE, reports |-> 0])
           /\ heap' = Put(Put(heap, ProblemRef(job_id), schedule),
                          WorkRef(job_id), schedule)
           /\ submitted' = Put(submitted, job_id, schedule)
    /\ pollOut' = NoPoll
    /\ UNCHANGED <<solved_schedules, lastReported, loads>>

\* ScheduleService.solve_schedule: a new job id, solve_and_listen(job_id,
\* schedule, listener); returns at once with status "Solving..."
SolveSchedule(schedule) ==
    /\ SubmitJob(schedule)
    /\ UNCHANGED <<scoreVars, callVars>>

\* the worker's check of the termination flag between two moves
CheckTermination(j) ==
    /\ jobs[j].status # "TERMINATED"
    /\ ~jobs[j].checked
    /\ jobs' = [jobs EXCEPT ![j] =
                  IF jobs[j].terminate
                  THEN [@ EXCEPT !.status = "TERMINATED"]
                  ELSE [@ EXCEPT !.checked = TRUE]]
    /\ pollOut' = NoPoll
    /\ UNCHANGED <<solved_schedules, heap, submitted, lastReported, issued, loads>>
    /\ UNCHANGED <<scoreVars, callVars>>

\* the construction phase of job j is over: it has reported its first schedule
Constructed(j) == jobs[j].best # NoScore

\* the worker goes on in spite of the flag
MayMoveIgnoringTermination(j) == TRUE

\* a move may start once the check between moves has passed
MayMove(j) == jobs[j].checked /\ jobs[j].status # "TERMINATED"

\* the tasks the optimizer may move
Movable(schedule) ==
    {t \in TaskIdsOf(schedule) : ~IsPinned(schedule.tasks[t])}

\* one step of the optimizer on its working copy: apply the move, rescore,
\* and on a new best score report a copy to the listener
ApplyMove(j, newTasks) ==
    LET moved == [heap[WorkRef(j)] EXCEPT !.tasks = newTasks]
        sc == ScoreOf(moved)
        newWork == [moved EXCEPT !.score = sc]
        improved == jobs[j].best = NoScore \/ ScoreGreater(sc, jobs[j].best)
        n == IF jobs[j].reports = 1 THEN 2 ELSE 1
        solution == BestSolutionCopy(j, n)
        registry == listener(solved_schedules, j, solution)
    IN  IF improved
        THEN /\ solved_schedules' = registry
             /\ heap' = Collect(Put(Put(heap, WorkRef(j), newWork), solution, newWork),
                                registry, SolverJobs)
             /\ lastReported' = Put(lastReported, j, newWork)
             /\ jobs' = [jobs EXCEPT ![j].status = "RUNNING", ![j].best = sc,
                                     ![j].checked = FALSE, ![j].reports = n]
        ELSE /\ heap' = Put(heap, WorkRef(j), newWork)
             /\ jobs' = [jobs EXCEPT ![j].status = "RUNNING", ![j].checked = FALSE]
             /\ UNCHANGED <<solved_schedules, lastReported>>

\* construction phase: every unpinned task gets an employee and a start slot
Construct(j) ==
    /\ ~Constructed(j)
    /\ MayMove(j)
    /\ LET w == heap[WorkRef(j)]
       IN  \E e \in [Movable(w) -> w.employees],
              s \in [Movable(w) -> get_start_slot_range(w)] :
              ApplyMove(j, [t \in TaskIdsOf(w) |->
                              IF t \in Movable(w)
                              THEN [w.tasks[t] EXCEPT !.employee = e[t],
                                                      !.start_slot = s[t]]
                              ELSE w.tasks[t]])
    /\ pollOut' = NoPoll
    /\ UNCHANGED <<submitted, issued, loads>>
    /\ UNCHANGED <<scoreVars, callVars>>

\* local search: reassign one unpinned task's employee
ReassignMove(j) ==
    /\ Constructed(j)
    /\ MayMove(j)
    /\ LET w == heap[WorkRef(j)]
       IN  \E t \in Movable(w), e \in w.employees :
              /\ e # w.tasks[t].employee
              /\ ApplyMove(j, [w.tasks EXCEPT ![t].employee = e])
    /\ pollOut' = NoPoll
    /\ UNCHANGED <<submitted, issued, loads>>
    /\ UNCHANGED <<scoreVars, callVars>>

\* local search: shift one unpinned task's start slot
ShiftMove(j) ==
    /\ Constructed(j)
    /\ MayMove(j)
    /\ LET w == heap[WorkRef(j)]
       IN  \E t \in Movable(w), s \in get_start_slot_range(w) :
              /\ s # w.tasks[t].start_slot
              /\ ApplyMove(j, [w.tasks EXCEPT ![t].start_slot = s])
    /\ pollOut' = NoPoll
    /\ UNCHANGED <<submitted, issued, loads>>
    /\ UNCHANGED <<scoreVars, callVars>>

\* local search: swap the (employee, start_slot) pairs of two unpinned tasks
SwapMove(j) ==
    /\ Constructed(j)
    /\ MayMove(j)
    /\ LET w == heap[WorkRef(j)]
       IN  \E t \in Movable(w), u \in Movable(w) :
              /\ t < u
              /\ <<w.tasks[t].employee, w.tasks[t].start_slot>>
                    # <<w.tasks[u].employee, w.tasks[u].start_slot>>
              /\ ApplyMove(j, [w.tasks EXCEPT
                                 ![t].employee = w.tasks[u].employee,
                                 ![t].start_slot = w.tasks[u].start_slot,
                                 ![u].employee = w.tasks[t].employee,
                                 ![u].start_slot = w.tasks[t].start_slot])
    /\ pollOut' = NoPoll
    /\ UNCHANGED <<submitted, issued, loads>>
    /\ UNCHANGED <<scoreVars, callVars>>

\* solver_manager.terminateEarly(job_id)
TerminateEarly(j) ==
    /\ ~jobs[j].terminate
    /\ jobs' = [jobs EXCEPT ![j].terminate = TRUE]
    /\ pollOut' = NoPoll
    /\ UNCHANGED <<solved_schedules, heap, submitted, lastReported, issued, loads>>
    /\ UNCHANGED <<scoreVars, callVars>>

\* solver_manager.terminateEarly(): every job
TerminateEarlyAll ==
    /\ \E j \in SolverJobs : ~jobs[j].terminate
    /\ jobs' = [j \in SolverJobs |-> [jobs[j] EXCEPT !.terminate = TRUE]]
    /\ pollOut' = NoPoll
    /\ UNCHANGED <<solved_schedules, heap, submitted, lastReported, issued, loads>>
    /\ UNCHANGED <<scoreVars, callVars>>

\* ScheduleService.generate_status_message
generate_status_message(schedule) ==
    IF schedule.score = NoScore THEN "Solution updated"
    ELSE IF schedule.score.hard < 0 THEN "CONSTRAINTS VIOLATED"
    ELSE "Solved successfully"

CallerSchedule == <<"caller">>

\* ScheduleService.poll_solution(job_id, schedule); job id 0 stands for an
\* empty or None job id.  employees_to_dataframe(None) raises AttributeError.
poll_solution(job_id, schedule) ==
    IF job_id # 0 /\ has_solved_schedule(job_id)
    THEN LET solved_schedule == get_solved_schedule(job_id)
         IN  IF solved_schedule = NoneRef
             THEN [kind |-> "raise", job_id |-> job_id]
             ELSE [kind |-> "return", tables |-> "dataframes", job_id |-> job_id,
                   status |-> generate_status_message(heap[solved_schedule]),
                   schedule |-> solved_schedule]
    ELSE [kind |-> "return", tables |-> None, job_id |-> job_id,
          status |-> "Solving...", schedule |-> schedule]

\* a poll of any job id, issued or not; pollOut also records whether the
\* job's optimizer had reported when the poll was made
PollSolution(job_id) ==
    /\ pollOut' = [out |-> poll_solution(job_id, CallerSchedule),
                   reported |-> job_id \in DOMAIN lastReported]
    /\ pollOut' # pollOut
    /\ UNCHANGED <<solved_schedules, heap, jobs, submitted, lastReported, issued,
                   loads>>
    /\ UNCHANGED <<scoreVars, callVars>>

Next ==
    \/ LoadData
    \/ SolveSchedule(ProblemFor(Cardinality(SolverJobs) + 1))
    \/ \E j \in SolverJobs : CheckTermination(j)
    \/ \E j \in SolverJobs : Construct(j)
    \/ \E j \in SolverJobs : ReassignMove(j)
    \/ \E j \in SolverJobs : ShiftMove(j)
    \/ \E j \in SolverJobs : SwapMove(j)
    \/ \E j \in SolverJobs : TerminateEarly(j)
    \/ TerminateEarlyAll
    \/ \E job_id \in {0} \cup JobIds : PollSolution(job_id)

Spec == Init /\ [][Next]_vars

-----------------------------------------------------------------------------
(* Claims about the registry and the solver jobs *)

\* the jobs whose registry entry holds a schedule
Stored == {j \in DOMAIN solved_schedules : solved_schedules[j] # NoneRef}

StoredSchedule(j) == heap[solved_schedules[j]]

SamePlacement(task1, task2) ==
    /\ task1.start_slot = task2.start_slot
    /\ task1.employee = task2.employee

\* C1: in every schedule a job's optimizer reports, and in the registry entry
\* of the job, every pinned task has the start_slot and the employee of the
\* submitted schedule; no move changes a pinned task of the working copy.
C1_PinnedImmutable ==
    \A j \in SolverJobs :
        \A t \in TaskIdsOf(submitted[j]) :
            submitted[j].tasks[t].pinned =>
                /\ SamePlacement(heap[WorkRef(j)].tasks[t], submitted[j].tasks[t])
                /\ j \in DOMAIN lastReported =>
                      SamePlacement(lastReported[j].tasks[t], submitted[j].tasks[t])
                /\ j \in Stored =>
                      SamePlacement(StoredSchedule(j).tasks[t], submitted[j].tasks[t])

C1_Witness ==
    \E j \in SolverJobs \cap Stored :
        /\ jobs[j].reports = 2
        /\ \E t \in TaskIdsOf(submitted[j]) : submitted[j].tasks[t].pinned
        /\ \E t \in TaskIdsOf(submitted[j]) :
              ~SamePlacement(StoredSchedule(j).tasks[t], submitted[j].tasks[t])

\* C2: a schedule written to the registry over another one has a greater
\* (hard, soft) score than the one it replaces, and the score readable under a
\* job id never gets worse and never goes away.
C2_MonotonicReporting ==
    [][\A j \in Stored :
          /\ j \in DOMAIN solved_schedules'
          /\ solved_schedules'[j] # NoneRef
          /\ IF solved_schedules'[j] # solved_schedules[j]
             THEN ScoreGreater(heap'[solved_schedules'[j]].score, StoredSchedule(j).score)
             ELSE heap'[solved_schedules'[j]].score = StoredSchedule(j).score]_vars

C2_Witness ==
    \E j \in SolverJobs \cap Stored :
        /\ jobs[j].reports = 2
        /\ heap[WorkRef(j)].score # StoredSchedule(j).score

\* C3 as stated: has_solved_schedule(job_id) only if the job's optimizer has
\* reported a schedule, and get_solved_schedule(job_id) is then the schedule
\* last reported by that job, never an empty placeholder.
C3_AsStated ==
    \A job_id \in JobIds :
        has_solved_schedule(job_id) =>
            /\ job_id \in DOMAIN lastReported
            /\ get_solved_schedule(job_id) # NoneRef
            /\ heap[get_solved_schedule(job_id)] = lastReported[job_id]

\* C4 as stated: a poll of a job id that is unknown or whose optimizer has not
\* reported returns status "Solving...", no tables and the caller's schedule,
\* without raising.
C4_AsStated ==
    (pollOut.out.kind # "none" /\ ~pollOut.reported) =>
        /\ pollOut.out.kind = "return"
        /\ pollOut.out.status = "Solving..."
        /\ pollOut.out.tables = None
        /\ pollOut.out.schedule = CallerSchedule

\* C5: the schedule stored under a job id is an object of its own, equal to
\* the schedule as it was when the job's optimizer last reported, whatever the
\* optimizer has done to its working copy since; a poll returns that schedule.
C5_SnapshotReads ==
    /\ \A j \in Stored :
          /\ j \in DOMAIN lastReported
          /\ solved_schedules[j] # WorkRef(j)
          /\ StoredSchedule(j) = lastReported[j]
    /\ (pollOut.out.kind = "return" /\ pollOut.out.tables # None) =>
          heap[pollOut.out.schedule] = lastReported[pollOut.out.job_id]

C5_Witness ==
    /\ pollOut.out.kind = "return"
    /\ pollOut.out.tables # None
    /\ LET j == pollOut.out.job_id
       IN  /\ jobs[j].status = "RUNNING"
           /\ heap[WorkRef(j)] # heap[pollOut.out.schedule]

-----------------------------------------------------------------------------
(* HoursSpec: the working-hours functions on arguments drawn from bounded sets *)

HoursSlots == 0 .. (MaxDays * SLOTS_PER_WORKING_DAY - 1)

\* the datetimes on a 30-minute boundary from 09:00 to 18:00, naive or aware
WorkingDatetimes ==
    {Datetime(d, m, tz) :
        d \in 0 .. (MaxDays - 1),
        m \in {9 * 60 + 30 * k : k \in 0 .. 18},
        tz \in {NoTz, <<0>>, <<60>>}}

HoursArgs ==
    {[op |-> "task_spans_lunch_break",
      task |-> [start_slot |-> s, duration_slots |-> d]] :
        s \in 0 .. (2 * SLOTS_PER_WORKING_DAY - 1), d \in 1 .. MaxTaskDuration}
    \cup {[op |-> "is_weekend_slot", slot |-> s, days_in_schedule |-> n] :
            s \in HoursSlots, n \in 1 .. MaxDays}
    \cup {[op |-> "slot_to_datetime", slot |-> s] : s \in HoursSlots}
    \cup {[op |-> "datetime_to_slot", dt |-> dt] : dt \in WorkingDatetimes}

HoursInit ==
    /\ RegistryInit
    /\ ScoreIdle
    /\ arg \in HoursArgs
    /\ result = NoCall

Returns(op, value) ==
    /\ arg.op = op
    /\ result = NoCall
    /\ result' = [op |-> op, value |-> value]
    /\ UNCHANGED <<registryVars, scoreVars, arg>>

TaskSpansLunchBreak ==
    /\ arg.op = "task_spans_lunch_break"
    /\ Returns("task_spans_lunch_break", task_spans_lunch_break(arg.task))

IsWeekendSlot ==
    /\ arg.op = "is_weekend_slot"
    /\ Returns("is_weekend_slot", is_weekend_slot(arg.slot))

SlotToDatetime ==
    /\ arg.op = "slot_to_datetime"
    /\ Returns("slot_to_datetime", slot_to_datetime(arg.slot))

DatetimeToSlot ==
    /\ arg.op = "datetime_to_slot"
    /\ Returns("datetime_to_slot", datetime_to_slot(arg.dt))

HoursNext ==
    \/ TaskSpansLunchBreak
    \/ IsWeekendSlot
    \/ SlotToDatetime
    \/ DatetimeToSlot

HoursSpec == HoursInit /\ [][HoursNext]_vars

Returned(op) == result.op = op

\* the slots of the interval [start_slot, start_slot + duration_slots)
IntervalOf(task) == task.start_slot .. (task.start_slot + task.duration_slots - 1)

LunchPositions == {8, 9}

TouchesLunch(task) ==
    \E slot \in IntervalOf(task) : get_slot_within_day(slot) \in LunchPositions

TouchesLunchOfStartDay(task) ==
    \E slot \in IntervalOf(task) :
        /\ get_working_day_from_slot(slot) = get_working_day_from_slot(task.start_slot)
        /\ get_slot_within_day(slot) \in LunchPositions

LunchCondition(task) ==
    /\ get_slot_within_day(task.start_slot) < 10
    /\ get_slot_within_day(task.start_slot) + task.duration_slots - 1 >= 8

\* C11 as stated: task_spans_lunch_break is true exactly when the task's slot
\* interval contains a slot whose position within its working day is 8 or 9,
\* and this is the condition slot_in_day(start) < 10 and
\* slot_in_day(start) + duration - 1 >= 8.
C11_AsStated ==
    Returned("task_spans_lunch_break") =>
        /\ result.value <=> TouchesLunch(arg.task)
        /\ result.value <=> LunchCondition(arg.task)

\* C11: task_spans_lunch_break is true exactly when the task's slot interval
\* contains slot 8 or 9 of the working day in which the task starts, which is
\* the condition slot_in_day(start) < 10 and slot_in_day(start) + duration - 1 >= 8.
C11_LunchOfStartDay ==
    Returned("task_spans_lunch_break") =>
        /\ result.value <=> TouchesLunchOfStartDay(arg.task)
        /\ result.value <=> LunchCondition(arg.task)

\* a task that starts after lunch and runs into the lunch slots of the next day
C11_Witness ==
    /\ Returned("task_spans_lunch_break")
    /\ ~result.value
    /\ TouchesLunch(arg.task)
    /\ get_slot_within_day(arg.task.start_slot) >= 10

\* C12 as stated: is_weekend_slot(slot) is false for every valid slot of a
\* schedule, 0 <= slot < total_slots = days_in_schedule * 20.
C12_AsStated ==
    (/\ Returned("is_weekend_slot")
     /\ arg.slot < arg.days_in_schedule * SLOTS_PER_WORKING_DAY)
        => ~result.value

\* C13 as stated: datetime_to_slot(slot_to_datetime(s)) = s for every slot
\* s >= 0, and slot_to_datetime(datetime_to_slot(dt)) = dt for every datetime
\* dt on a 30-minute boundary within working hours on a date at or after base.
C13_AsStated ==
    /\ Returned("slot_to_datetime") => datetime_to_slot(result.value) = arg.slot
    /\ Returned("datetime_to_slot") => slot_to_datetime(result.value) = arg.dt

\* C13: datetime_to_slot(slot_to_datetime(s)) = s for every slot s >= 0, and
\* slot_to_datetime(datetime_to_slot(dt)) = dt for every naive datetime dt on
\* a 30-minute boundary within working hours on a date at or after base.
C13_RoundTripNaive ==
    /\ Returned("slot_to_datetime") => datetime_to_slot(result.value) = arg.slot
    /\ (Returned("datetime_to_slot") /\ arg.dt.tzinfo = NoTz)
          => slot_to_datetime(result.value) = arg.dt

C13_Witness ==
    /\ Returned("datetime_to_slot")
    /\ arg.dt.tzinfo = NoTz
    /\ arg.dt.day > 0
    /\ arg.dt.minutes = 13 * 60 + 30
    /\ result.value = arg.dt.day * 20 + 9

\* C14 as stated: for every slot s >= 0, slot_to_datetime(s) is a time at or
\* after 09:00, and the 30-minute slot it denotes ends at or before 18:00 of
\* the same day.
C14_AsStated ==
    Returned("slot_to_datetime") =>
        /\ result.value.day = get_working_day_from_slot(arg.slot)
        /\ result.value.minutes >= 9 * 60
        /\ result.value.minutes + 30 <= 18 * 60

-----------------------------------------------------------------------------
(* The problem builder: factory/data_generators.py, factory/data/provider.py, *)
(* services/schedule.py                                                      *)

\* parameters.skill_set, a SkillSet of two required skills and one optional
SkillSet ==
    [required_skills |-> {"Frontend Engineer", "Backend Engineer"},
     optional_skills |-> {"Security Expert"}]

AllSkills == SkillSet.required_skills \cup SkillSet.optional_skills

\* counts(parameters.optional_skill_distribution) of DATA_PARAMS
OptionalSkillCounts == {1, 2}

\* random.sample(parameters.skill_set.optional_skills, count) for the counts
\* random.choices may draw, each cut to len(optional_skills)
OptionalSamples ==
    {o \in SUBSET SkillSet.optional_skills :
        \E c \in OptionalSkillCounts :
            Cardinality(o) = Min(c, Cardinality(SkillSet.optional_skills))}

\* What random.Random(parameters.random_seed) yields for one employee: the
\* required skill and the optional skills sampled in generate_employees, and
\* the index sampled in generate_employee_availability.  A generator is the
\* sequence of these draws; the same seed gives the same sequence.
EmployeeDraws ==
    [required_skill : SkillSet.required_skills,
     optional_skills : OptionalSamples,
     unavailable : 0 .. (MaxBuilderDays - 1)]

Randoms(employee_count) == [1 .. employee_count -> EmployeeDraws]

\* the loop of generate_employees over employees i .. employee_count - 1 with
\* the skills still needed; set.pop() may return any element of the set
RECURSIVE EmployeeLoop(_, _, _, _)
EmployeeLoop(i, employee_count, skills_needed, random) ==
    IF i >= employee_count THEN {<<>>}
    ELSE LET skills == {random[i + 1].required_skill}
                           \cup random[i + 1].optional_skills
         IN  IF skills_needed # {} /\ i < Cardinality(skills_needed)
             THEN UNION {
                    {<<skills \cup {needed_skill}>> \o rest :
                        rest \in EmployeeLoop(i + 1, employee_count,
                                    skills_needed \ {needed_skill}, random)} :
                    needed_skill \in skills_needed}
             ELSE {<<skills>> \o rest :
                     rest \in EmployeeLoop(i + 1, employee_count,
                                           skills_needed, random)}

\* generate_employees(parameters, random, required_skills_needed): the lists of
\* skill sets it can return, one skill set per employee
generate_employees(employee_count, random, required_skills_needed) ==
    IF required_skills_needed # {}
    THEN IF employee_count = 1
         THEN {<<AllSkills>>}
         ELSE EmployeeLoop(0, employee_count, required_skills_needed, random)
    ELSE EmployeeLoop(0, employee_count, {}, random)

\* round(n / d) of two positive integers (Python rounds halves to even)
round_ratio(n, d) ==
    LET q == n \div d
        r == n % d
    IN  IF 2 * r < d THEN q
        ELSE IF 2 * r > d THEN q + 1
        ELSE IF q % 2 = 0 THEN q ELSE q + 1

max_unavailable_per_employee(days_in_schedule) ==
    Max(1, round_ratio(21 * days_in_schedule, 365))

\* generate_employee_availability for one employee: random.randint(1, max)
\* dates sampled from all_dates = start_date .. start_date + days - 1, as the
\* generator's draw decides.  round((12 / 365) * days_in_schedule) is 0 for
\* schedules of up to 15 days, so no undesired or desired date is drawn.
unavailable_dates(draw, days_in_schedule, start_date) ==
    LET num_unavailable ==
            1 + (draw.unavailable
                    % max_unavailable_per_employee(days_in_schedule))
    IN  {start_date + ((draw.unavailable + k) % days_in_schedule) :
            k \in 0 .. (Min(num_unavailable, days_in_schedule) - 1)}

\* the employee generate_schedule_for_solving seeds a task with: position in
\* employees of the first one holding the skill, else the first employee
SeedEmployee(skills, skill) ==
    LET suitable == {i \in DOMAIN skills : skill \in skills[i]}
    IN  IF suitable # {}
        THEN CHOOSE i \in suitable : \A k \in suitable : i <= k
        ELSE 1

\* ScheduleService.generate_schedule_for_solving run on the day `today` with
\* the employees' skills generate_employees returned
BuiltSchedule(a, today, skills) ==
    LET single == a.employee_count = 1 /\ Len(skills) = 1
    IN  [employees |->
            [i \in DOMAIN skills |->
                [skills |-> skills[i],
                 unavailable_dates |->
                    IF single THEN {}
                    ELSE unavailable_dates(a.random[i], a.days_in_schedule,
                                           today),
                 undesired_dates |-> {},
                 desired_dates |-> {}]],
         tasks |->
            [k \in DOMAIN a.tasks |->
                [required_skill |-> a.tasks[k].required_skill,
                 pinned |-> a.tasks[k].pinned,
                 start_slot |-> a.tasks[k].start_slot,
                 duration_slots |-> a.tasks[k].duration_slots,
                 employee |-> IF single THEN 1
                              ELSE SeedEmployee(skills,
                                                a.tasks[k].required_skill)]],
         total_slots |-> a.days_in_schedule * SLOTS_PER_WORKING_DAY,
         base_date |-> a.base_date]

\* datetime.now().date(): the day the builder runs on
Today == 0 .. (MaxToday - 1)

\* the schedules generate_schedule_for_solving can return for its arguments
generate_schedule_for_solving(a) ==
    LET required_skills_needed ==
            {a.tasks[k].required_skill : k \in DOMAIN a.tasks}
    IN  {BuiltSchedule(a, today, skills) :
            today \in Today,
            skills \in generate_employees(a.employee_count, a.random,
                                          required_skills_needed)}

\* generate_mcp_data without a user message: it raises for a calendar task
\* whose start slot is outside the schedule; otherwise the calendar tasks are
\* the pinned tasks of project EXISTING, numbered in the order of arrival and
\* given to the sole employee (the skill drawn for a calendar task is left at
\* one value)
Raised == [raised |-> "ValueError"]

generate_mcp_data(a) ==
    LET total_slots == a.days_in_schedule * SLOTS_PER_WORKING_DAY
    IN  IF \E k \in DOMAIN a.calendar_tasks :
              a.calendar_tasks[k].start_slot >= total_slots
        THEN Raised
        ELSE [tasks |->
                [k \in DOMAIN a.calendar_tasks |->
                    Task(k - 1, a.calendar_tasks[k].duration_slots,
                         a.calendar_tasks[k].start_slot, "Frontend Engineer",
                         "EXISTING", k - 1, TRUE, "Chatbot User")],
              total_slots |-> total_slots]

-----------------------------------------------------------------------------
(* BuilderSpec: the problem builder on inputs drawn from bounded sets *)

\* tasks as convert_dataframe_to_tasks hands them over: an unpinned task starts
\* at slot 0, a pinned task where its calendar entry puts it
BuilderStartSlots == {0, SLOTS_PER_WORKING_DAY - 1}

BuilderTasks ==
    {[required_skill |-> sk, pinned |-> FALSE, start_slot |-> 0,
      duration_slots |-> 1] : sk \in AllSkills}
    \cup
    {[required_skill |-> sk, pinned |-> TRUE, start_slot |-> st,
      duration_slots |-> d] :
        sk \in SkillSet.required_skills, st \in BuilderStartSlots,
        d \in 1 .. MaxBuilderDuration}

TaskLists(S) == UNION {[1 .. n -> S] : n \in 1 .. MaxBuilderTasks}

\* calendar tasks start in the first or the last slot of a day
CalendarTasks ==
    {[start_slot |-> day * SLOTS_PER_WORKING_DAY + st, duration_slots |-> d] :
        day \in 0 .. MaxBuilderDays, st \in BuilderStartSlots,
        d \in 1 .. MaxBuilderDuration}

BuilderArgs ==
    {[op |-> "generate_employees", employee_count |-> n,
      required_skills_needed |-> K, random |-> r] :
        n \in 1 .. MaxEmployees, K \in SUBSET AllSkills,
        r \in {x \in Randoms(MaxEmployees) :
                  \A i \in DOMAIN x : x[i].unavailable = 0}}
    \cup
    {[op |-> "generate_schedule_for_solving", tasks |-> ts,
      employee_count |-> n, days_in_schedule |-> days, base_date |-> 0,
      random |-> r] :
        ts \in TaskLists(BuilderTasks), n \in 1 .. MaxEmployees,
        days \in 1 .. MaxBuilderDays, r \in Randoms(MaxEmployees)}
    \cup
    {[op |-> "generate_mcp_data", calendar_tasks |-> ts,
      days_in_schedule |-> days] :
        ts \in TaskLists(CalendarTasks), days \in 1 .. MaxBuilderDays}

BuilderInit ==
    /\ RegistryInit
    /\ ScoreIdle
    /\ arg \in BuilderArgs
    /\ result = NoCall

GenerateEmployees ==
    /\ arg.op = "generate_employees"
    /\ \E employees \in generate_employees(arg.employee_count, arg.random,
                                           arg.required_skills_needed) :
          Returns("generate_employees", employees)

GenerateScheduleForSolving ==
    /\ arg.op = "generate_schedule_for_solving"
    /\ \E schedule \in generate_schedule_for_solving(arg) :
          Returns("generate_schedule_for_solving", schedule)

\* a second run of the builder with the arguments and the seed of the first
GenerateScheduleAgain ==
    /\ arg.op = "generate_schedule_for_solving"
    /\ result.op = "generate_schedule_for_solving"
    /\ \E schedule \in generate_schedule_for_solving(arg) :
          result' = [op |-> "generate_schedule_again",
                     first |-> result.value, value |-> schedule]
    /\ UNCHANGED <<registryVars, scoreVars, arg>>

GenerateMcpData ==
    /\ arg.op = "generate_mcp_data"
    /\ Returns("generate_mcp_data", generate_mcp_data(arg))

BuilderNext ==
    \/ GenerateEmployees
    \/ GenerateScheduleForSolving
    \/ GenerateScheduleAgain
    \/ GenerateMcpData

BuilderSpec == BuilderInit /\ [][BuilderNext]_vars

\* the skills the employees of the pool hold between them
PoolSkills(employees) == UNION {employees[i] : i \in DOMAIN employees}

\* C16 as stated: the employees returned by generate_employees collectively
\* hold every skill required by the tasks, for every set of required skills
\* and every employee_count >= 1.
C16_AsStated ==
    Returned("generate_employees") =>
        arg.required_skills_needed \subseteq PoolSkills(result.value)

\* a pinned task of the list ends beyond total_slots
EndsBeyond(tasks, total_slots) ==
    \E k \in DOMAIN tasks :
        tasks[k].start_slot + tasks[k].duration_slots > total_slots

\* C17 as stated: whenever some pinned task's end slot (start_slot +
\* duration_slots) exceeds total_slots = days_in_schedule * 20 the builder
\* raises instead of returning a schedule, so no returned schedule holds a
\* pinned task that ends beyond total_slots.
C17_AsStated ==
    /\ Returned("generate_mcp_data") =>
          (EndsBeyond(arg.calendar_tasks,
                      arg.days_in_schedule * SLOTS_PER_WORKING_DAY)
              => result.value = Raised)
    /\ Returned("generate_schedule_for_solving") =>
          ~EndsBeyond(
              [k \in {j \in DOMAIN result.value.tasks :
                          result.value.tasks[j].pinned} |->
                  result.value.tasks[k]],
              result.value.total_slots)

\* no two calendar tasks of the list overlap
NonOverlapping(tasks) ==
    \A a \in DOMAIN tasks, b \in DOMAIN tasks :
        a # b =>
            \/ tasks[a].start_slot + tasks[a].duration_slots <= tasks[b].start_slot
            \/ tasks[b].start_slot + tasks[b].duration_slots <= tasks[a].start_slot

C20_AsStated ==
    Returned("generate_schedule_again") => result.value = result.first

-----------------------------------------------------------------------------
(* The diagnostic analyzer: constraint_solvers/timetable/analysis/violation_analyzer.py *)

\* the messages of the analyzer; its output is their lines joined
NoViolations == [kind |-> "No constraint violations detected."]
UnknownViolations == [kind |-> "Unknown constraint violations detected."]
MissingSkillsMessage(skills) == [kind |-> "Missing Skills", skills |-> skills]
InsufficientTimeMessage == [kind |-> "Insufficient Time"]
UnassignedTasksMessage(count) == [kind |-> "Unassigned Tasks", count |-> count]
SequenceViolationMessage(project_id) ==
    [kind |-> "Sequence Violation", project_id |-> project_id]

\* [task for task in schedule.tasks if not task.employee]
unassigned_tasks(schedule) ==
    {t \in TaskIdsOf(schedule) : schedule.tasks[t].employee = None}

available_skills(schedule) ==
    UNION {Employee[e].skills : e \in schedule.employees}

\* ConstraintViolationAnalyzer._check_skill_violations
check_skill_violations(schedule) ==
    LET missing_skills ==
            {schedule.tasks[t].required_skill : t \in
                {u \in unassigned_tasks(schedule) :
                    schedule.tasks[u].required_skill
                        \notin available_skills(schedule)}}
    IN  IF missing_skills # {} THEN {MissingSkillsMessage(missing_skills)} ELSE {}

\* ConstraintViolationAnalyzer._check_time_violations
check_time_violations(schedule) ==
    LET total_task_slots ==
            SetSum([t \in TaskIdsOf(schedule) |->
                       schedule.tasks[t].duration_slots],
                   TaskIdsOf(schedule))
        total_available_slots ==
            Cardinality(schedule.employees) * schedule.schedule_info.total_slots
    IN  IF total_task_slots > total_available_slots
        THEN {InsufficientTimeMessage} ELSE {}

\* ConstraintViolationAnalyzer._check_availability_violations
check_availability_violations(schedule) ==
    LET unassigned_count == Cardinality(unassigned_tasks(schedule))
    IN  IF unassigned_count > 0 THEN {UnassignedTasksMessage(unassigned_count)}
        ELSE {}

\* project_tasks[project_id]: the tasks of the project, in list order
project_tasks(schedule, project_id) ==
    {t \in TaskIdsOf(schedule) : schedule.tasks[t].project_id = project_id}

\* a comes before b in sorted(tasks, key=sequence_number): the sort is stable
SortedBefore(schedule, a, b) ==
    \/ schedule.tasks[a].sequence_number < schedule.tasks[b].sequence_number
    \/ /\ schedule.tasks[a].sequence_number = schedule.tasks[b].sequence_number
       /\ a < b

\* sorted_tasks[i] and sorted_tasks[i + 1]
SortedNeighbours(schedule, project_id) ==
    {<<a, b>> \in project_tasks(schedule, project_id)
                    \X project_tasks(schedule, project_id) :
        /\ SortedBefore(schedule, a, b)
        /\ ~\E c \in project_tasks(schedule, project_id) :
              SortedBefore(schedule, a, c) /\ SortedBefore(schedule, c, b)}

\* ConstraintViolationAnalyzer._check_sequence_violations
check_sequence_violations(schedule) ==
    {SequenceViolationMessage(project_id) :
        project_id \in
            {pid \in {schedule.tasks[t].project_id : t \in TaskIdsOf(schedule)} :
                /\ pid # ""
                /\ Cardinality(project_tasks(schedule, pid)) > 1
                /\ \E pair \in SortedNeighbours(schedule, pid) :
                      LET current_task == schedule.tasks[pair[1]]
                          next_task == schedule.tasks[pair[2]]
                      IN  /\ current_task.employee # None
                          /\ next_task.employee # None
                          /\ next_task.start_slot
                                < current_task.start_slot
                                    + current_task.duration_slots}}

\* ConstraintViolationAnalyzer.analyze_constraint_violations: the set of the
\* lines of its output
analyze_constraint_violations(schedule) ==
    IF schedule.score = NoScore \/ schedule.score.hard >= 0
    THEN {NoViolations}
    ELSE LET violations ==
                 check_skill_violations(schedule)
                     \cup check_time_violations(schedule)
                     \cup check_availability_violations(schedule)
                     \cup check_sequence_violations(schedule)
         IN  IF violations = {} THEN {UnknownViolations} ELSE violations

-----------------------------------------------------------------------------
(* ScoreSpec: the scorer on schedules drawn from bounded sets *)

StartSlots == (0 .. MaxStart) \cup {SLOTS_PER_WORKING_DAY}
Durations == 1 .. MaxDuration
SequenceNumbers == 0 .. MaxSequence
EmployeeOrNone == EmployeeNames \cup {None}

ScoreTasks ==
    {<<t1, t2, t3>> :
        t1 \in {Task(1, d, s, "Python", p, q, FALSE, e) :
                  d \in Durations, s \in StartSlots, p \in {"", "P"},
                  q \in SequenceNumbers, e \in EmployeeOrNone},
        t2 \in {Task(2, d, s, "Java", p, q, FALSE, e) :
                  d \in Durations, s \in StartSlots, p \in {"", "P", "Q"},
                  q \in SequenceNumbers, e \in EmployeeOrNone},
        t3 \in {Task(3, 1, 0, "Python", "P", 0, TRUE, e) : e \in {None, "alice"}}}

ScoreInit ==
    /\ RegistryInit
    /\ CallIdle
    /\ sched \in {EmployeeSchedule(EmployeeNames, ts, 2 * SLOTS_PER_WORKING_DAY, NoScore) :
                    ts \in ScoreTasks}
    /\ score = NoScore

\* the score calculation of the solver on the schedule
CalculateScore ==
    /\ score = NoScore
    /\ score' = calculate_score(sched)
    /\ sched' = [sched EXCEPT !.score = calculate_score(sched)]
    /\ UNCHANGED <<registryVars, callVars>>

ScoreNext == CalculateScore

ScoreSpec == ScoreInit /\ [][ScoreNext]_vars

-----------------------------------------------------------------------------
(* Claims about the scorer *)

Scored == score # NoScore

TaskEnd(task) == task.start_slot + task.duration_slots

SlotsOf(task) == task.start_slot .. (TaskEnd(task) - 1)

Assigned(task) == task.employee # None

\* the schedule without task t
Without(schedule, t) ==
    [schedule EXCEPT !.tasks = [u \in DOMAIN schedule.tasks \ {t} |-> schedule.tasks[u]]]

\* the penalty the no-overlap constraint gives the ordered pair <<a, b>>
OverlapContribution(a, b) ==
    IF <<a, b>> \in no_overlapping_tasks(sched)
    THEN NoOverlapWeight(sched, <<a, b>>) ELSE 0

\* the penalty the sequence constraint gives the ordered pair <<a, b>>
OrderContribution(a, b) ==
    IF <<a, b>> \in maintain_project_task_order(sched)
    THEN ProjectOrderWeight(sched, <<a, b>>) ELSE 0

UnorderedPairs == {p \in TaskIdsOf(sched) \X TaskIdsOf(sched) : p[1] < p[2]}

OrderedPairs == {p \in TaskIdsOf(sched) \X TaskIdsOf(sched) : p[1] # p[2]}

SameEmployee(p) ==
    /\ Assigned(sched.tasks[p[1]])
    /\ sched.tasks[p[1]].employee = sched.tasks[p[2]].employee

ExpectedOverlap(p) ==
    Max(0, Min(TaskEnd(sched.tasks[p[1]]), TaskEnd(sched.tasks[p[2]]))
            - Max(sched.tasks[p[1]].start_slot, sched.tasks[p[2]].start_slot))

ExpectedOverlapOfPair(p) == IF SameEmployee(p) THEN ExpectedOverlap(p) ELSE 0

\* C7: every unordered pair of distinct tasks of the same employee is penalized
\* by exactly max(0, min(end1, end2) - max(start1, start2)) slots, the number of
\* slots the two tasks share, once per pair; pairs of different employees are
\* not penalized, and the constraint's total is the sum over the pairs.
C7_NoOverlapPenalty ==
    Scored =>
        /\ \A p \in UnorderedPairs :
              /\ OverlapContribution(p[1], p[2]) + OverlapContribution(p[2], p[1])
                    = ExpectedOverlapOfPair(p)
              /\ SameEmployee(p) =>
                    ExpectedOverlap(p)
                        = Cardinality(SlotsOf(sched.tasks[p[1]])
                                        \cap SlotsOf(sched.tasks[p[2]]))
        /\ score.penalties.no_overlapping_tasks
              = SetSum([p \in UnorderedPairs |-> ExpectedOverlapOfPair(p)], UnorderedPairs)

C7_Witness ==
    /\ Scored
    /\ \E p \in UnorderedPairs : SameEmployee(p) /\ ExpectedOverlap(p) = 2
    /\ \E p \in UnorderedPairs :
          /\ SameEmployee(p)
          /\ \/ TaskEnd(sched.tasks[p[1]]) = sched.tasks[p[2]].start_slot
             \/ TaskEnd(sched.tasks[p[2]]) = sched.tasks[p[1]].start_slot
    /\ score.penalties.no_overlapping_tasks = 2

UnassignedTasks == {t \in TaskIdsOf(sched) : ~Assigned(sched.tasks[t])}

\* C8: a task without an employee is in no match of the constraints required
\* skill, no overlap, unavailable employee, undesired day and desired day, and
\* the totals of these five constraints are those of the schedule without it.
C8_UnassignedExemption ==
    Scored =>
        \A t \in UnassignedTasks :
            /\ t \notin required_skill(sched)
            /\ \A p \in no_overlapping_tasks(sched) : t # p[1] /\ t # p[2]
            /\ t \notin unavailable_employee(sched)
            /\ t \notin undesired_day_for_employee(sched)
            /\ t \notin desired_day_for_employee(sched)
            /\ LET without == calculate_score(Without(sched, t)).penalties
               IN  /\ score.penalties.required_skill = without.required_skill
                   /\ score.penalties.no_overlapping_tasks
                         = without.no_overlapping_tasks
                   /\ score.penalties.unavailable_employee
                         = without.unavailable_employee
                   /\ score.penalties.undesired_day_for_employee
                         = without.undesired_day_for_employee
                   /\ score.penalties.desired_day_for_employee
                         = without.desired_day_for_employee

C8_Witness ==
    /\ Scored
    /\ \E t \in UnassignedTasks, u \in UnassignedTasks :
          /\ t # u
          /\ JoinersOverlapping(sched.tasks[t], sched.tasks[u])
          /\ get_slot_date(sched.tasks[t].start_slot) = 1
    /\ score.penalties.desired_day_for_employee > 0

SameProject(p) ==
    /\ sched.tasks[p[1]].project_id # ""
    /\ sched.tasks[p[1]].project_id = sched.tasks[p[2]].project_id

InSequence(p) ==
    /\ SameProject(p)
    /\ sched.tasks[p[1]].sequence_number < sched.tasks[p[2]].sequence_number

ExpectedOrderPenalty(p) ==
    Max(0, TaskEnd(sched.tasks[p[1]]) - sched.tasks[p[2]].start_slot)

BothAssigned(p) == Assigned(sched.tasks[p[1]]) /\ Assigned(sched.tasks[p[2]])

\* C9 as stated: every ordered pair of distinct tasks of one non-empty project
\* with t1.sequence_number < t2.sequence_number is penalized by
\* t1.start_slot + t1.duration_slots - t2.start_slot when positive, else zero;
\* the other pairs are not penalized.
C9_AsStated ==
    Scored =>
        \A p \in OrderedPairs :
            OrderContribution(p[1], p[2])
                = IF InSequence(p) THEN ExpectedOrderPenalty(p) ELSE 0

\* C9 amended: the same for the ordered pairs of distinct tasks that are both
\* assigned; the constraint's total is the sum over these pairs.
C9_SequencePenaltyOfAssigned ==
    Scored =>
        /\ \A p \in OrderedPairs :
              BothAssigned(p) =>
                  OrderContribution(p[1], p[2])
                      = IF InSequence(p) THEN ExpectedOrderPenalty(p) ELSE 0
        /\ LET Expected(p) == IF BothAssigned(p) /\ InSequence(p)
                              THEN ExpectedOrderPenalty(p) ELSE 0
           IN  score.penalties.maintain_project_task_order
                   = SetSum([p \in OrderedPairs |-> Expected(p)], OrderedPairs)

C9_Witness ==
    /\ Scored
    /\ \E p \in OrderedPairs :
          /\ BothAssigned(p) /\ InSequence(p)
          /\ ExpectedOrderPenalty(p) > get_slot_overlap(sched.tasks[p[1]], sched.tasks[p[2]])
    /\ \E p \in OrderedPairs :
          BothAssigned(p) /\ InSequence(p) /\ ExpectedOrderPenalty(p) = 0
    /\ score.penalties.maintain_project_task_order > 0

\* C10: an ordered pair in which either task has no employee gets no sequence
\* penalty, and the constraint's total is that of the assigned tasks alone.
C10_SequenceOnlyAssigned ==
    Scored =>
        /\ \A p \in OrderedPairs :
              ~BothAssigned(p) => OrderContribution(p[1], p[2]) = 0
        /\ \A t \in UnassignedTasks :
              score.penalties.maintain_project_task_order
                  = calculate_score(Without(sched, t)).penalties.maintain_project_task_order

C10_Witness ==
    /\ Scored
    /\ \E p \in OrderedPairs :
          /\ ~BothAssigned(p)
          /\ InSequence(p)
          /\ ExpectedOrderPenalty(p) > 0
    /\ score.penalties.maintain_project_task_order > 0


\* the number of tasks assigned to employee e in the scored schedule
CountOf(e) ==
    Cardinality({t \in DOMAIN sched.tasks : sched.tasks[t].employee = e})

\* a schedule of the same two employees with task counts (2, 1)
ScheduleTwoOne ==
    EmployeeSchedule(EmployeeNames,
        <<Task(1, 1, 0, "Python", "", 0, FALSE, "alice"),
          Task(2, 1, 1, "Python", "", 0, FALSE, "alice"),
          Task(3, 1, 0, "Java", "", 0, FALSE, "bob")>>,
        2 * SLOTS_PER_WORKING_DAY, NoScore)

\* C15: the balance penalty, sqrt(dev / n), is taken over the task counts of
\* both employees, also when one of them has no task: with counts (a, b) its
\* square is (a - b)^2 / 2, so it is zero when the counts are equal, positive
\* when they are not, and greater for counts (3, 0) than for counts (2, 1).
C15_BalancedWorkload ==
    Scored =>
        LET a == CountOf("alice")
            b == CountOf("bob")
        IN  /\ score.n = 2
            /\ score.dev = (a - b) * (a - b)
            /\ a = b => score.dev = 0
            /\ a # b => score.dev > 0
            /\ {a, b} = {3, 0} => score.dev > calculate_score(ScheduleTwoOne).dev

C15_Witness ==
    /\ Scored
    /\ CountOf("alice") = 3
    /\ CountOf("bob") = 0
    /\ score.dev = 9

-----------------------------------------------------------------------------
(* AnalyzerSpec: the scorer, then the analyzer, on schedules of one project *)

\* a skill no employee of the pool holds
UnheldSkill == "Go"

AnalyzerTasks ==
    {<<t1, t2, t3>> :
        t1 \in {Task(1, d, s, sk, "P", 0, FALSE, e) :
                  d \in Durations, s \in 0 .. MaxStart,
                  sk \in {"Python", UnheldSkill}, e \in {None, "alice"}},
        t2 \in {Task(2, 1, s, "Python", p, q, FALSE, e) :
                  s \in 0 .. MaxStart, p \in {"P", "Q"},
                  q \in SequenceNumbers, e \in {None, "alice"}},
        t3 \in {Task(3, 1, s, "Python", "P", MaxSequence + 1, FALSE, e) :
                  s \in 0 .. MaxStart, e \in {None, "alice"}}}

AnalyzerInit ==
    /\ RegistryInit
    /\ arg = [op |-> "analyze_constraint_violations"]
    /\ result = NoCall
    /\ sched \in {EmployeeSchedule(EmployeeNames, ts, 2 * SLOTS_PER_WORKING_DAY, NoScore) :
                    ts \in AnalyzerTasks}
    /\ score = NoScore

\* the analyzer run on the schedule the solver scored
AnalyzeConstraintViolations ==
    /\ score # NoScore
    /\ result = NoCall
    /\ result' = [op |-> "analyze_constraint_violations",
                  value |-> analyze_constraint_violations(sched)]
    /\ UNCHANGED <<registryVars, scoreVars, arg>>

AnalyzerNext ==
    \/ CalculateScore
    \/ AnalyzeConstraintViolations

AnalyzerSpec == AnalyzerInit /\ [][AnalyzerNext]_vars

Analyzed == Returned("analyze_constraint_violations") /\ sched.score.hard < 0

\* C18 as stated: for every schedule with hard score < 0 in which some task
\* requires a skill that no employee of the pool holds, the analyzer's output
\* contains a missing-skills message naming that skill.
C18_AsStated ==
    Analyzed =>
        \A t \in TaskIdsOf(sched) :
            sched.tasks[t].required_skill \notin available_skills(sched) =>
                \E m \in result.value :
                    /\ m.kind = "Missing Skills"
                    /\ sched.tasks[t].required_skill \in m.skills

\* the project holds a pair of assigned tasks whose order contradicts
\* sequence_number
ContradictsSequence(schedule, project_id) ==
    \E a \in project_tasks(schedule, project_id),
       b \in project_tasks(schedule, project_id) :
        /\ schedule.tasks[a].employee # None
        /\ schedule.tasks[b].employee # None
        /\ tasks_violate_sequence_order(schedule.tasks[a], schedule.tasks[b])

\* C19 as stated: for a schedule with hard score < 0 the analyzer reports a
\* sequence violation for a project exactly when the project contains a pair
\* of assigned tasks t1, t2 with t1.sequence_number < t2.sequence_number and
\* t2 starting before t1 ends.
C19_AsStated ==
    Analyzed =>
        \A project_id \in {"P", "Q"} :
            SequenceViolationMessage(project_id) \in result.value
                <=> ContradictsSequence(sched, project_id)

-----------------------------------------------------------------------------
(* The tasks of the problem builder: factory/data_generators.py,            *)
(* utils/extract_calendar.py, services/data.py, factory/data/formatters.py  *)

\* int(text): <<n>> for a text that reads as the integer n, NoInt for one
\* that raises ValueError
NoInt == <<>>

\* a decomposition tuple without a skill (the old two-element format)
NoSkillGiven == "no skill given"

\* a skill name outside the skill set (the composer's default skill)
GeneralSkill == "General"

\* the positions of agent_output whose duration int() accepts
ValidTuples(agent_output) ==
    {i \in DOMAIN agent_output : agent_output[i].duration # NoInt}

\* the position in agent_output of the k-th task produced
TupleOfTask(agent_output, k) ==
    CHOOSE i \in ValidTuples(agent_output) :
        Cardinality({j \in ValidTuples(agent_output) : j <= i}) = k

\* the skills tasks_from_agent_output may give the task of a tuple
SkillsFor(skill) ==
    IF skill = NoSkillGiven THEN AllSkills
    ELSE IF skill \notin AllSkills THEN SkillSet.required_skills
    ELSE {skill}

\* tasks_from_agent_output(agent_output, parameters, project_id): the task
\* lists it can return; ids count the tasks produced, sequence numbers the
\* tuples read
tasks_from_agent_output(agent_output, project_id) ==
    LET n == Cardinality(ValidTuples(agent_output))
    IN  {[k \in 1 .. n |->
            Task(k - 1,
                 agent_output[TupleOfTask(agent_output, k)].duration[1],
                 0, skills[k], project_id,
                 TupleOfTask(agent_output, k) - 1, FALSE, None)] :
            skills \in {f \in [1 .. n -> AllSkills] :
                          \A k \in 1 .. n :
                              f[k] \in SkillsFor(
                                  agent_output[TupleOfTask(agent_output, k)].skill)}}

\* utils/extract_calendar.py calculate_duration_slots(start_dt, end_dt)
calculate_duration_slots(start_dt, end_dt) ==
    LET s == IF start_dt.tzinfo # NoTz THEN astimezone_naive(start_dt) ELSE start_dt
        e == IF end_dt.tzinfo # NoTz THEN astimezone_naive(end_dt) ELSE end_dt
        total_minutes == (e.day - s.day) * 1440 + e.minutes - s.minutes
    IN  Max(1, round_div_30(total_minutes))

\* utils/extract_calendar.py validate_calendar_working_hours for one entry:
\* the violations found, on the hours and minutes of the entry's own zone
entry_violations(entry) ==
    LET start_datetime == entry.start_datetime
        end_datetime == entry.end_datetime
    IN  (IF start_datetime.minutes \div 60 < 9 THEN {"before 9:00"} ELSE {})
        \cup
        (IF \/ end_datetime.minutes \div 60 > 18
            \/ (end_datetime.minutes \div 60 = 18 /\ end_datetime.minutes % 60 > 0)
         THEN {"after 18:00"} ELSE {})
        \cup
        (IF start_datetime.minutes < 14 * 60 /\ end_datetime.minutes > 13 * 60
         THEN {"spans lunch break (13:00-14:00)"} ELSE {})

\* validate_calendar_working_hours(calendar_entries): is_valid
validate_calendar_working_hours(calendar_entries) ==
    \A k \in DOMAIN calendar_entries : entry_violations(calendar_entries[k]) = {}

\* int(x) of the number x = n / d, d > 0: truncation towards zero
int_of_ratio(n, d) == IF n >= 0 THEN n \div d ELSE 0 - ((0 - n) \div d)

\* a row of the task table; Start is <<datetime>> or <<>> (None), the
\* duration column is held in quarters of an hour
Row(project, sequence, employee, start, quarter_hours, skill, pinned) ==
    [Project |-> project, Sequence |-> sequence, Employee |-> employee,
     Start |-> start, Duration_quarter_hours |-> quarter_hours,
     Required_Skill |-> skill, Pinned |-> pinned]

\* the conversion of a row that leaves every task at slot 0
RowToTask_start_zero(row, k) ==
    Task(k - 1, int_of_ratio(row.Duration_quarter_hours * 2, 4),
         0, row.Required_Skill, row.Project, row.Sequence, row.Pinned, None)

\* DataService.convert_dataframe_to_tasks(task_df, base_date) for one row
RowToTask(row, k) ==
    LET start_slot ==
            IF row.Pinned /\ row.Start # <<>>
            THEN datetime_to_slot(row.Start[1])
            ELSE 0
    IN  Task(k - 1, int_of_ratio(row.Duration_quarter_hours * 2, 4),
             start_slot, row.Required_Skill, row.Project, row.Sequence,
             row.Pinned, None)

convert_dataframe_to_tasks(task_df) ==
    [k \in DOMAIN task_df |-> RowToTask(task_df[k], k)]

\* factory/data/formatters.py schedule_to_dataframe(schedule): Start is
\* slot_to_datetime(start_slot, base_date), "Duration (hours)" is
\* duration_slots / 2, which is 2 * duration_slots quarters of an hour
schedule_to_dataframe(schedule) ==
    [k \in DOMAIN schedule.tasks |->
        LET task == schedule.tasks[k]
        IN  Row(task.project_id, task.sequence_number,
                IF task.employee # None THEN task.employee ELSE "Unassigned",
                <<slot_to_datetime(task.start_slot)>>,
                2 * task.duration_slots, task.required_skill, task.pinned)]

-----------------------------------------------------------------------------
(* TasksSpec: the task producers of the builder on bounded inputs *)

AgentDurations == {NoInt} \cup {<<n>> : n \in -1 .. MaxBuilderDuration}

AgentTuples ==
    [duration : AgentDurations,
     skill : AllSkills \cup {GeneralSkill, NoSkillGiven}]

\* the times of day of calendar entries: on and off the half-hour grid,
\* around the lunch break and at both ends of the working day
CalendarMinutes ==
    {9 * 60, 12 * 60 + 30, 12 * 60 + 50, 13 * 60, 14 * 60, 17 * 60 + 30,
     18 * 60}

CalendarDatetimes ==
    {Datetime(d, m, tz) :
        d \in 0 .. (MaxBuilderDays - 1), m \in CalendarMinutes,
        tz \in {NoTz, <<60>>}}

TableRows ==
    {Row("", 0, "Unassigned", <<>>, q, sk, FALSE) :
        q \in 0 .. (2 * MaxBuilderDuration), sk \in SkillSet.required_skills}
    \cup
    {Row("EXISTING", 0, e, <<dt>>, q, "Frontend Engineer", TRUE) :
        e \in {"Unassigned", "Chatbot User"},
        dt \in {x \in CalendarDatetimes : x.tzinfo = NoTz},
        q \in {1, 2, 4}}

\* tasks of a solved schedule: pinned ones at the first slot, the lunch
\* break or the last slot of a day, unpinned ones where the solver put them
SolvedTasks ==
    {Task(0, d, day * SLOTS_PER_WORKING_DAY + st, "Frontend Engineer",
          IF pinned THEN "EXISTING" ELSE "PROJECT", 0, pinned, e) :
        d \in 1 .. MaxBuilderDuration, day \in 0 .. (MaxBuilderDays - 1),
        st \in {0, LUNCH_BREAK_START_SLOT, SLOTS_PER_WORKING_DAY - 1},
        pinned \in BOOLEAN, e \in {"Chatbot User"}}

\* the instant of a datetime, in minutes
Instant(dt) ==
    dt.day * 1440 + dt.minutes - (IF dt.tzinfo = NoTz THEN 0 ELSE dt.tzinfo[1])

\* calendar entries: an entry ends after it starts
CalendarEntries ==
    {e \in [start_datetime : CalendarDatetimes, end_datetime : CalendarDatetimes] :
        /\ e.end_datetime.tzinfo = e.start_datetime.tzinfo
        /\ Instant(e.end_datetime) > Instant(e.start_datetime)}

TasksArgs ==
    {[op |-> "validate_calendar_working_hours", calendar_entries |-> es] :
        es \in [1 .. 1 -> CalendarEntries]}
    \cup
    {[op |-> "schedule_to_dataframe",
      schedule |-> EmployeeSchedule({"Chatbot User"}, ts,
                       MaxBuilderDays * SLOTS_PER_WORKING_DAY, NoScore)] :
        ts \in TaskLists(SolvedTasks)}
    \cup
    {[op |-> "tasks_from_agent_output", agent_output |-> out,
      project_id |-> "PROJECT"] : out \in TaskLists(AgentTuples)}
    \cup
    {[op |-> "calculate_duration_slots", start_dt |-> sd, end_dt |-> ed] :
        sd \in CalendarDatetimes, ed \in CalendarDatetimes}
    \cup
    {[op |-> "convert_dataframe_to_tasks", task_df |-> df] :
        df \in [1 .. 1 -> TableRows]}

TasksInit ==
    /\ RegistryInit
    /\ ScoreIdle
    /\ arg \in TasksArgs
    /\ result = NoCall

TasksFromAgentOutput ==
    /\ arg.op = "tasks_from_agent_output"
    /\ \E tasks \in tasks_from_agent_output(arg.agent_output, arg.project_id) :
          Returns("tasks_from_agent_output", tasks)

CalculateDurationSlots ==
    /\ arg.op = "calculate_duration_slots"
    /\ Returns("calculate_duration_slots",
               calculate_duration_slots(arg.start_dt, arg.end_dt))

ConvertDataframeToTasks ==
    /\ arg.op = "convert_dataframe_to_tasks"
    /\ Returns("convert_dataframe_to_tasks",
               convert_dataframe_to_tasks(arg.task_df))

ScheduleToDataframe ==
    /\ arg.op = "schedule_to_dataframe"
    /\ Returns("schedule_to_dataframe", schedule_to_dataframe(arg.schedule))

\* the table of a schedule converted back to tasks, with the same base date
ConvertTableBack ==
    /\ result.op = "schedule_to_dataframe"
    /\ result' = [op |-> "table_round_trip",
                  value |-> convert_dataframe_to_tasks(result.value)]
    /\ UNCHANGED <<registryVars, scoreVars, arg>>

ValidateCalendarWorkingHours ==
    /\ arg.op = "validate_calendar_working_hours"
    /\ Returns("validate_calendar_working_hours",
               validate_calendar_working_hours(arg.calendar_entries))

TasksNext ==
    \/ ValidateCalendarWorkingHours
    \/ TasksFromAgentOutput
    \/ CalculateDurationSlots
    \/ ConvertDataframeToTasks
    \/ ScheduleToDataframe
    \/ ConvertTableBack

TasksSpec == TasksInit /\ [][TasksNext]_vars

\* every task of the list has a duration of at least one slot
PositiveDurations(tasks) ==
    \A k \in DOMAIN tasks : tasks[k].duration_slots >= 1

\* C21 as stated: every Task produced by the builder, from a calendar entry,
\* from a decomposition triple or from a task-table row, has
\* duration_slots >= 1.
C21_AsStated ==
    /\ Returned("calculate_duration_slots") => result.value >= 1
    /\ Returned("tasks_from_agent_output") => PositiveDurations(result.value)
    /\ Returned("convert_dataframe_to_tasks") => PositiveDurations(result.value)

\* the pinned task of a calendar entry
PinnedTaskOf(entry) ==
    [start_slot |-> datetime_to_slot(entry.start_datetime),
     duration_slots |-> calculate_duration_slots(entry.start_datetime,
                                                 entry.end_datetime)]

\* C25 as stated: every calendar entry accepted by
\* validate_calendar_working_hours, once converted to a pinned task with
\* datetime_to_slot and calculate_duration_slots, has task_spans_lunch_break
\* false.
C25_AsStated ==
    (Returned("validate_calendar_working_hours") /\ result.value) =>
        \A k \in DOMAIN arg.calendar_entries :
            ~task_spans_lunch_break(PinnedTaskOf(arg.calendar_entries[k]))

\* C24: for every pinned task with start_slot >= 0 and a fixed base date,
\* converting the schedule to its tabular view (schedule_to_dataframe) and
\* back (convert_dataframe_to_tasks with the same base date) yields a task
\* with the same start_slot, duration_slots and pinned flag.
C24_TableRoundTrip ==
    Returned("table_round_trip") =>
        /\ DOMAIN result.value = DOMAIN arg.schedule.tasks
        /\ \A k \in DOMAIN arg.schedule.tasks :
              arg.schedule.tasks[k].pinned /\ arg.schedule.tasks[k].start_slot >= 0 =>
                  /\ result.value[k].start_slot = arg.schedule.tasks[k].start_slot
                  /\ result.value[k].duration_slots
                        = arg.schedule.tasks[k].duration_slots
                  /\ result.value[k].pinned

\* a round trip of a pinned task that starts at the last slot of a later day
C24_Witness ==
    /\ Returned("table_round_trip")
    /\ \E k \in DOMAIN arg.schedule.tasks :
          /\ arg.schedule.tasks[k].pinned
          /\ arg.schedule.tasks[k].start_slot >= 2 * SLOTS_PER_WORKING_DAY - 1
          /\ result.value[k].start_slot = arg.schedule.tasks[k].start_slot

-----------------------------------------------------------------------------
(* SeedSpec: the build of a schedule from the task table, as                *)
(* solve_schedule_from_state runs it                                        *)

\* the names generate_employees gives the first employees of the pool, in
\* the order the seeded shuffle leaves them
name_permutations == <<"Amy Cole", "Beth Fox">>

\* the employee names of the built pool
PoolNames(schedule, employee_count) ==
    IF employee_count = 1 /\ Len(schedule.employees) = 1
    THEN <<"Chatbot User">>
    ELSE [i \in DOMAIN schedule.employees |-> name_permutations[i]]

\* the first entry of the working day 0, on the half-hour grid
SeedStart == Datetime(0, 9 * 60, NoTz)

\* rows of the task table: unpinned rows without an employee, pinned rows
\* that name no employee or one of the pool
SeedRows ==
    {Row("PROJECT", 0, "Unassigned", <<>>, 2, sk, FALSE) : sk \in AllSkills}
    \cup
    {Row("EXISTING", 0, e, <<SeedStart>>, 2, sk, TRUE) :
        e \in {"Unassigned"} \cup {name_permutations[i] : i \in 1 .. MaxEmployees},
        sk \in SkillSet.required_skills}

SeedArgs ==
    {[op |-> "build_from_table", task_df |-> df, employee_count |-> n,
      days_in_schedule |-> 1, base_date |-> 0, random |-> r] :
        df \in TaskLists(SeedRows), n \in 1 .. MaxEmployees,
        r \in {x \in Randoms(MaxEmployees) :
                  \A i \in DOMAIN x : x[i].unavailable = 0}}

SeedInit ==
    /\ RegistryInit
    /\ ScoreIdle
    /\ arg \in SeedArgs
    /\ result = NoCall

\* tasks = DataService.convert_dataframe_to_tasks(task_df, base_date), then
\* ScheduleService.generate_schedule_for_solving(tasks, employee_count,
\* days_in_schedule, base_date)
BuildFromTable ==
    /\ arg.op = "build_from_table"
    /\ LET tasks == convert_dataframe_to_tasks(arg.task_df)
       IN  \E schedule \in generate_schedule_for_solving(
                               [tasks |-> tasks,
                                employee_count |-> arg.employee_count,
                                days_in_schedule |-> arg.days_in_schedule,
                                base_date |-> arg.base_date,
                                random |-> arg.random]) :
              Returns("build_from_table", schedule)

SeedNext == BuildFromTable

SeedSpec == SeedInit /\ [][SeedNext]_vars

\* the position in the pool of the employee a row names, if it names one
NamedEmployee(row, names) ==
    {i \in DOMAIN names : names[i] = row.Employee}

\* the employee of task k is the one its row names, if the row names one of
\* the pool
KeepsNamedEmployee(schedule, k) ==
    \A i \in NamedEmployee(arg.task_df[k],
                           PoolNames(schedule, arg.employee_count)) :
        schedule.tasks[k].employee = i

\* the employee of task k is the first of the pool holding the task's skill,
\* or some employee when nobody holds it
NaiveAssignment(schedule, k) ==
    LET holders == {i \in DOMAIN schedule.employees :
                       schedule.tasks[k].required_skill
                           \in schedule.employees[i].skills}
    IN  /\ schedule.tasks[k].employee \in DOMAIN schedule.employees
        /\ holders # {} =>
              /\ schedule.tasks[k].employee \in holders
              /\ \A i \in holders : schedule.tasks[k].employee <= i

\* C23 as stated: after the build no task is left unassigned; each pinned
\* task is assigned the explicit caller-provided employee (in single-employee
\* mode, the sole employee), and each unpinned task is assigned the first
\* employee of the pool holding its required skill, or else any employee.
C23_AsStated ==
    Returned("build_from_table") =>
        \A k \in DOMAIN result.value.tasks :
            /\ result.value.tasks[k].employee \in DOMAIN result.value.employees
            /\ IF result.value.tasks[k].pinned
               THEN IF arg.employee_count = 1
                    THEN result.value.tasks[k].employee = 1
                    ELSE KeepsNamedEmployee(result.value, k)
               ELSE NaiveAssignment(result.value, k)

-----------------------------------------------------------------------------
(* ConvergeSpec: one job on the end-to-end scenario, solved without a       *)
(* cancellation                                                             *)

\* one pinned task at 09:00-10:00 of day 0, two unpinned one-slot tasks of the
\* project, one employee holding the skill, no dates, a horizon of 3 days
ScenarioProblem ==
    EmployeeSchedule({"user"},
        <<Task(1, 2, 0, "Python", "EXISTING", 0, TRUE, "user"),
          Task(2, 1, 0, "Python", "PROJECT", 0, FALSE, "user"),
          Task(3, 1, 0, "Python", "PROJECT", 1, FALSE, "user")>>,
        3 * SLOTS_PER_WORKING_DAY, NoScore)

\* the start slots the search tries: the first ones of day 0
ScenarioSlots == 0 .. MaxScenarioSlot

\* an acceptance that takes strictly better hard scores only
AcceptsImprovingMove(j) ==
    \/ heap[WorkRef(j)].score = NoScore
    \/ heap'[WorkRef(j)].score.hard > heap[WorkRef(j)].score.hard

\* the acceptance criterion of the search: a move that worsens the hard score
\* of the working copy is not taken
AcceptsMove(j) ==
    \/ heap[WorkRef(j)].score = NoScore
    \/ heap'[WorkRef(j)].score.hard >= heap[WorkRef(j)].score.hard

\* local search: the shift of task t to start slot s
ShiftTo(j, t, s) ==
    /\ Constructed(j)
    /\ MayMove(j)
    /\ t \in Movable(heap[WorkRef(j)])
    /\ s # heap[WorkRef(j)].tasks[t].start_slot
    /\ ApplyMove(j, [heap[WorkRef(j)].tasks EXCEPT ![t].start_slot = s])
    /\ pollOut' = NoPoll
    /\ UNCHANGED <<submitted, issued, loads>>
    /\ UNCHANGED <<scoreVars, callVars>>

ScenarioTasks == DOMAIN ScenarioProblem.tasks

\* construction phase: the unpinned tasks get the employee and the start
\* slots s
ConstructTo(j, s) ==
    /\ ~Constructed(j)
    /\ MayMove(j)
    /\ LET w == heap[WorkRef(j)]
       IN  /\ DOMAIN s = Movable(w)
           /\ \E e \in [Movable(w) -> w.employees] :
                 ApplyMove(j, [t \in TaskIdsOf(w) |->
                                 IF t \in Movable(w)
                                 THEN [w.tasks[t] EXCEPT !.employee = e[t],
                                                         !.start_slot = s[t]]
                                 ELSE w.tasks[t]])
    /\ pollOut' = NoPoll
    /\ UNCHANGED <<submitted, issued, loads>>
    /\ UNCHANGED <<scoreVars, callVars>>

\* the start slots a construction may choose
ScenarioStarts == UNION {[M -> ScenarioSlots] : M \in SUBSET ScenarioTasks}

ConvergeNext ==
    \/ SolverJobs = {} /\ SolveSchedule(ScenarioProblem)
    \/ \E j \in SolverJobs : CheckTermination(j)
    \/ \E j \in SolverJobs, s \in ScenarioStarts : ConstructTo(j, s)
    \/ \E j \in SolverJobs, t \in ScenarioTasks, s \in ScenarioSlots :
          ShiftTo(j, t, s) /\ AcceptsMove(j)
    \/ \E j \in SolverJobs : SwapMove(j) /\ AcceptsMove(j)

\* the hard score of the working copy once task t is shifted to slot s
ShiftedHard(schedule, t, s) ==
    ScoreOf([schedule EXCEPT !.tasks[t].start_slot = s]).hard

\* a feasible schedule is one shift away from the working copy
NearFeasible(schedule) ==
    \E t \in Movable(schedule), s \in ScenarioSlots :
        ShiftedHard(schedule, t, s) = 0

\* a step of the local search
SearchStep(j) ==
    /\ \/ \E t \in ScenarioTasks, s \in ScenarioSlots : ShiftTo(j, t, s)
       \/ SwapMove(j)
    /\ AcceptsMove(j)

\* no termination is configured and nobody cancels: the worker of the job
\* keeps running and the construction phase ends; the local search selects
\* its moves at random, so a step to a feasible schedule that is possible
\* again and again is taken, and so is a step to a schedule next to one
ConvergeFairness ==
    /\ WF_vars(1 \in SolverJobs /\ CheckTermination(1))
    /\ WF_vars(1 \in SolverJobs /\ \E s \in ScenarioStarts : ConstructTo(1, s))
    /\ SF_vars(1 \in SolverJobs /\ SearchStep(1)
                 /\ heap'[WorkRef(1)].score.hard = 0)
    /\ SF_vars(1 \in SolverJobs /\ SearchStep(1)
                 /\ NearFeasible(heap'[WorkRef(1)]))

ConvergeSpec == Init /\ [][ConvergeNext]_vars /\ ConvergeFairness

\* the schedule the optimizer of job j reported last is feasible and holds
\* the pinned task where the scenario put it
ReportedFeasible(j) ==
    /\ j \in DOMAIN lastReported
    /\ has_solved_schedule(j)
    /\ heap[get_solved_schedule(j)].score.hard = 0
    /\ heap[get_solved_schedule(j)].tasks[1].start_slot
          = ScenarioProblem.tasks[1].start_slot

-----------------------------------------------------------------------------
(* PollSpec: the two polling operations against the registry as loads and   *)
(* first reports fill it                                                    *)

LlmOutput == <<"llm_output">>

\* ScheduleService.auto_poll(job_id, llm_output), which the handler auto_poll
\* of web_backend.py passes on; job id 0 stands for an empty or None job id.
\* employees_to_dataframe(None) raises AttributeError, which auto_poll catches.
auto_poll(job_id, llm_output) ==
    IF job_id # 0 /\ has_solved_schedule(job_id)
    THEN LET schedule == get_solved_schedule(job_id)
         IN  IF schedule = NoneRef
             THEN [kind |-> "return", tables |-> "gr.update", job_id |-> job_id,
                   status |-> "Error polling", llm_output |-> llm_output]
             ELSE [kind |-> "return", tables |-> "dataframes", job_id |-> job_id,
                   status |-> generate_status_message(heap[schedule]),
                   llm_output |-> llm_output]
    ELSE [kind |-> "return", tables |-> "gr.update", job_id |-> 0,
          status |-> "No updates", llm_output |-> llm_output]

\* a call of poll_solution, recorded with the job id it was called with
PollSolutionCall(job_id) ==
    /\ result' = [op |-> "poll_solution", job_id |-> job_id,
                  value |-> poll_solution(job_id, CallerSchedule)]
    /\ result' # result
    /\ pollOut' = NoPoll
    /\ UNCHANGED <<solved_schedules, heap, jobs, submitted, lastReported, issued,
                   loads>>
    /\ UNCHANGED <<scoreVars, arg>>

\* a call of auto_poll, recorded with the job id it was called with
AutoPoll(job_id) ==
    /\ result' = [op |-> "auto_poll", job_id |-> job_id,
                  value |-> auto_poll(job_id, LlmOutput)]
    /\ result' # result
    /\ pollOut' = NoPoll
    /\ UNCHANGED <<solved_schedules, heap, jobs, submitted, lastReported, issued,
                   loads>>
    /\ UNCHANGED <<scoreVars, arg>>

PollNext ==
    \/ LoadData
    \/ SolveSchedule(ProblemFor(Cardinality(SolverJobs) + 1))
    \/ \E j \in SolverJobs : CheckTermination(j)
    \/ \E j \in SolverJobs : Construct(j)
    \/ \E job_id \in {0} \cup JobIds : PollSolutionCall(job_id)
    \/ \E job_id \in {0} \cup JobIds : AutoPoll(job_id)

PollSpec == Init /\ [][PollNext]_vars

\* C27 as stated: every polling operation (poll_solution and auto_poll)
\* returns the job id it was called with, both when a result is available
\* and on a miss.
C27_AsStated ==
    (Returned("poll_solution") \/ Returned("auto_poll")) =>
        (result.value.kind = "return" => result.value.job_id = result.job_id)

-----------------------------------------------------------------------------
(* McpSpec: handlers/mcp_backend.py process_message_and_attached_file, one  *)
(* call running beside the worker of the job it submits; the problem has    *)
(* one employee, so the worker has no move that changes an employee         *)

\* the position of the handler: before the solve, in the polling loop, returned
McpCall(pc, job_id, poll_count) ==
    [op |-> "process_message_and_attached_file", pc |-> pc, job_id |-> job_id,
     poll_count |-> poll_count]

McpInit ==
    /\ RegistryInit
    /\ ScoreIdle
    /\ arg = McpCall("solve", 0, 0)
    /\ result = NoCall

\* Step 4: solve_schedule_from_state starts the solver and returns the job id
McpSolve ==
    /\ arg.pc = "solve"
    /\ SubmitJob(ProblemA)
    /\ arg' = McpCall("poll", NewJobId, 0)
    /\ UNCHANGED <<scoreVars, result>>

\* the registry holds a schedule for the handler's job
McpSolved ==
    /\ has_solved_schedule(arg.job_id)
    /\ get_solved_schedule(arg.job_id) # NoneRef

McpReturns(response) ==
    /\ result' = [op |-> "process_message_and_attached_file", value |-> response]
    /\ arg' = McpCall("done", arg.job_id, arg.poll_count)
    /\ pollOut' = NoPoll
    /\ UNCHANGED <<solved_schedules, heap, jobs, submitted, lastReported, issued,
                   loads>>
    /\ UNCHANGED scoreVars

\* Step 5, a poll that finds a schedule: the response with status "success"
McpSuccess ==
    /\ arg.pc = "poll"
    /\ arg.poll_count < MaxPolls
    /\ McpSolved
    /\ McpReturns([status |-> "success",
                   solution_status |->
                       generate_status_message(heap[get_solved_schedule(arg.job_id)]),
                   schedule |-> heap[get_solved_schedule(arg.job_id)],
                   job_id |-> arg.job_id])

\* Step 5, a poll that finds a schedule whose conversion raises
McpConversionFailed ==
    /\ arg.pc = "poll"
    /\ arg.poll_count < MaxPolls
    /\ McpSolved
    /\ McpReturns([status |-> "conversion_failed", job_id |-> arg.job_id])

\* Step 5, a poll that finds nothing: time.sleep(poll_interval)
McpSleep ==
    /\ arg.pc = "poll"
    /\ arg.poll_count < MaxPolls
    /\ ~McpSolved
    /\ arg' = McpCall("poll", arg.job_id, arg.poll_count + 1)
    /\ pollOut' = NoPoll
    /\ UNCHANGED <<solved_schedules, heap, jobs, submitted, lastReported, issued,
                   loads>>
    /\ UNCHANGED <<scoreVars, result>>

\* the loop is over after max_polls polls
McpTimeout ==
    /\ arg.pc = "poll"
    /\ arg.poll_count = MaxPolls
    /\ McpReturns([status |-> "timeout", job_id |-> arg.job_id])

McpNext ==
    \/ McpSolve
    \/ McpSuccess
    \/ McpConversionFailed
    \/ McpSleep
    \/ McpTimeout
    \/ \E j \in SolverJobs : CheckTermination(j)
    \/ \E j \in SolverJobs : Construct(j)
    \/ \E j \in SolverJobs : ShiftMove(j)
    \/ \E j \in SolverJobs : SwapMove(j)

McpSpec == McpInit /\ [][McpNext]_vars

McpReturned == Returned("process_message_and_attached_file")

\* C28 as stated: a solver job submitted by process_message_and_attached_file
\* is no longer running once the handler has returned, whether it returned
\* success, conversion_failed or timeout.
C28_AsStated ==
    McpReturned => jobs[result.value.job_id].status = "TERMINATED"

\* C29 as stated: whenever the returned status is "success", the schedule in
\* the response has hard score 0.
C29_AsStated ==
    (McpReturned /\ result.value.status = "success") =>
        result.value.schedule.score.hard = 0

-----------------------------------------------------------------------------
(* AssemblerSpec: handlers/tool_call_handler.py ToolCallAssembler. A string *)
(* of arguments is a sequence of lexical pieces of JSON text; the object    *)
(* under call is kept in arg, the value of the last call in result          *)

\* the pieces the argument chunks are made of: the braces, the comma, a blank,
\* a complete member and a member whose string value is left open
JsonPieces == {"{", "}", ",", " ", "\"k\":1", "\"k\":\"v"}

ToolIndexes == {0, 1}

\* str.strip() of a string of pieces
RECURSIVE Strip(_)
Strip(s) ==
    IF s = <<>> THEN s
    ELSE IF Head(s) = " " THEN Strip(Tail(s))
    ELSE IF s[Len(s)] = " " THEN Strip(SubSeq(s, 1, Len(s) - 1))
    ELSE s

NotBlank(piece) == piece # " "

\* json.loads(s) does not raise: blanks between the pieces are skipped, the
\* text is an object of complete members separated by commas
_is_valid_json(s) ==
    LET t == SelectSeq(s, NotBlank)
    IN /\ Len(t) >= 2
       /\ t[1] = "{"
       /\ t[Len(t)] = "}"
       /\ \/ Len(t) = 2
          \/ /\ Len(t) % 2 = 1
             /\ \A k \in 2 .. Len(t) - 1 :
                    t[k] = (IF k % 2 = 0 THEN "\"k\":1" ELSE ",")

\* brace_count after the piece at position i, counted from position first
RECURSIVE BraceCount(_, _, _)
BraceCount(s, first, i) ==
    IF i < first THEN 0
    ELSE BraceCount(s, first, i - 1)
           + (IF s[i] = "{" THEN 1 ELSE IF s[i] = "}" THEN 0 - 1 ELSE 0)

NoRepair == <<"None">>

\* ToolCallAssembler._attempt_json_repair: a closing brace is added to a text
\* that does not end with one; otherwise the first balanced segment that
\* parses is extracted. The pieces hold no calendar_file_content field and no
\* non-printable character, so those two repairs do not apply
_attempt_json_repair(broken_json) ==
    IF Strip(broken_json) = <<>> \/ Strip(broken_json)[Len(Strip(broken_json))] # "}"
    THEN Append(Strip(broken_json), "}")
    ELSE LET braces == {k \in 1 .. Len(broken_json) : broken_json[k] = "{"}
             first_brace == CHOOSE k \in braces : \A m \in braces : k <= m
             ends == {i \in 1 .. Len(broken_json) :
                         /\ braces # {}
                         /\ i >= first_brace
                         /\ broken_json[i] = "}"
                         /\ BraceCount(broken_json, first_brace, i) = 0
                         /\ _is_valid_json(SubSeq(broken_json, first_brace, i))}
         IN IF ends = {} THEN NoRepair
            ELSE SubSeq(broken_json, first_brace,
                        CHOOSE i \in ends : \A m \in ends : i <= m)

\* a call of get_completed_tool_calls that takes the repaired arguments
Repaired(tool_call) ==
    /\ tool_call.function.name # ""
    /\ tool_call.function.arguments # <<>>
    /\ ~_is_valid_json(tool_call.function.arguments)
    /\ _attempt_json_repair(tool_call.function.arguments) # NoRepair
    /\ _is_valid_json(_attempt_json_repair(tool_call.function.arguments))

\* the tool call as get_completed_tool_calls leaves it: the repaired arguments
\* are written into the dict held by self.tool_calls
AfterCompleted(tool_call) ==
    IF Repaired(tool_call)
    THEN [tool_call EXCEPT !.function.arguments =
              _attempt_json_repair(tool_call.function.arguments)]
    ELSE tool_call

Completed(tool_call) ==
    /\ tool_call.function.name # ""
    /\ tool_call.function.arguments # <<>>
    /\ _is_valid_json(AfterCompleted(tool_call).function.arguments)

\* ToolCallAssembler.get_completed_tool_calls: the list returned and the
\* tool calls of the assembler after the call, in the order of the dict
get_completed_tool_calls(tool_calls) ==
    [completed |-> SelectSeq([k \in DOMAIN tool_calls |-> AfterCompleted(tool_calls[k])],
                             Completed),
     tool_calls |-> [k \in DOMAIN tool_calls |-> AfterCompleted(tool_calls[k])]]

\* ToolCallAssembler.debug_info: the counts and one detail per tool call,
\* read after the call of get_completed_tool_calls it makes
debug_info(tool_calls) ==
    LET after == get_completed_tool_calls(tool_calls)
    IN [info |-> [total_tool_calls |-> Len(tool_calls),
                  completed_tool_calls |-> Len(after.completed),
                  tool_calls_detail |->
                      [k \in DOMAIN tool_calls |->
                          [index |-> after.tool_calls[k].index,
                           function_name |-> after.tool_calls[k].function.name,
                           arguments_length |-> Len(after.tool_calls[k].function.arguments),
                           is_json_valid |->
                               _is_valid_json(after.tool_calls[k].function.arguments)]]],
        tool_calls |-> after.tool_calls]

\* the entry of the dict for an index, added empty when the index is new
WithIndex(tool_calls, index) ==
    IF \E k \in DOMAIN tool_calls : tool_calls[k].index = index
    THEN tool_calls
    ELSE Append(tool_calls, [index |-> index, id |-> "", type |-> "function",
                             function |-> [name |-> "", arguments |-> <<>>]])

\* ToolCallAssembler.process_delta for one tool_call_delta
process_tool_call_delta(tool_calls, d) ==
    LET index == IF "index" \in DOMAIN d THEN d.index ELSE 0
        calls == WithIndex(tool_calls, index)
        k     == CHOOSE k \in DOMAIN calls : calls[k].index = index
        has_function == "function" \in DOMAIN d
    IN [calls EXCEPT
          ![k].id = IF "id" \in DOMAIN d THEN d.id ELSE @,
          ![k].type = IF "type" \in DOMAIN d THEN d.type ELSE @,
          ![k].function.name =
              IF has_function /\ "name" \in DOMAIN d.function
              THEN d.function.name ELSE @,
          ![k].function.arguments =
              IF has_function /\ "arguments" \in DOMAIN d.function
              THEN @ \o d.function.arguments ELSE @]

\* ToolCallAssembler.process_delta: a delta without tool_calls is ignored
RECURSIVE ApplyDeltas(_, _)
ApplyDeltas(tool_calls, deltas) ==
    IF deltas = <<>> THEN tool_calls
    ELSE ApplyDeltas(process_tool_call_delta(tool_calls, Head(deltas)), Tail(deltas))

process_delta(tool_calls, delta) ==
    IF "tool_calls" \notin DOMAIN delta THEN tool_calls
    ELSE ApplyDeltas(tool_calls, delta.tool_calls)

\* the tool_call_deltas of a stream: the opening one with id, name and type,
\* and one chunk of arguments, with or without its index
ToolCallDeltas ==
    {[index |-> i, id |-> "call", type |-> "function",
      function |-> [name |-> "schedule_tasks_with_calendar"]] : i \in ToolIndexes}
    \cup {[index |-> i, function |-> [arguments |-> <<piece>>]] :
              i \in ToolIndexes, piece \in JsonPieces}
    \cup {[function |-> [arguments |-> <<piece>>]] : piece \in JsonPieces}

Deltas ==
    {[tool_calls |-> <<d>>] : d \in ToolCallDeltas} \cup {[content |-> "text"]}

\* the chunks of arguments a delta carries for an index, in order
RECURSIVE ChunksFor(_, _)
ChunksFor(deltas, index) ==
    IF deltas = <<>> THEN <<>>
    ELSE (IF /\ (IF "index" \in DOMAIN Head(deltas) THEN Head(deltas).index ELSE 0) = index
             /\ "function" \in DOMAIN Head(deltas)
             /\ "arguments" \in DOMAIN Head(deltas).function
          THEN Head(deltas).function.arguments ELSE <<>>)
         \o ChunksFor(Tail(deltas), index)

\* the assembler with the chunks received so far for each index
Assembler(tool_calls, received) ==
    [op |-> "ToolCallAssembler", tool_calls |-> tool_calls, received |-> received]

ReceivedTotal == Len(arg.received[0]) + Len(arg.received[1])

\* ToolCallAssembler(): reset() leaves the dict empty
AssemblerInit ==
    /\ RegistryInit
    /\ ScoreIdle
    /\ arg = Assembler(<<>>, [i \in ToolIndexes |-> <<>>])
    /\ result = NoCall

AssemblerFrame ==
    UNCHANGED <<solved_schedules, heap, jobs, submitted, lastReported, issued,
                loads, pollOut, sched, score>>

ProcessDelta ==
    \E delta \in Deltas :
        LET chunks == IF "tool_calls" \in DOMAIN delta THEN delta.tool_calls ELSE <<>>
        IN /\ ReceivedTotal + Len(ChunksFor(chunks, 0)) + Len(ChunksFor(chunks, 1))
                  <= MaxArgPieces
           /\ arg' = Assembler(process_delta(arg.tool_calls, delta),
                               [i \in ToolIndexes |->
                                   arg.received[i] \o ChunksFor(chunks, i)])
           /\ result' = [op |-> "process_delta", value |-> "None"]
           /\ AssemblerFrame

GetCompletedToolCalls ==
    /\ arg' = Assembler(get_completed_tool_calls(arg.tool_calls).tool_calls,
                        arg.received)
    /\ result' = [op |-> "get_completed_tool_calls",
                  value |-> get_completed_tool_calls(arg.tool_calls).completed]
    /\ AssemblerFrame

DebugInfo ==
    /\ arg' = Assembler(debug_info(arg.tool_calls).tool_calls, arg.received)
    /\ result' = [op |-> "debug_info", value |-> debug_info(arg.tool_calls).info]
    /\ AssemblerFrame

AssemblerNext ==
    \/ ProcessDelta
    \/ GetCompletedToolCalls
    \/ DebugInfo

AssemblerSpec == AssemblerInit /\ [][AssemblerNext]_vars

\* C30 as stated: after any sequence of process_delta calls, interleaved with
\* any number of get_completed_tool_calls and debug_info calls, the accumulated
\* arguments of each tool-call index equal the in-order concatenation of the
\* argument chunks received for that index (the two query operations leave
\* them as they are).
C30_AsStated ==
    \A k \in DOMAIN arg.tool_calls :
        arg.tool_calls[k].function.arguments = arg.received[arg.tool_calls[k].index]

=============================================================================
